---- MODULE Spec2Model ----
(***************************************************************************)
(* State-machine model of the deltawash real-time wash interpreter:        *)
(*   - Esp8266Client           (src/deltawash_pi/feedback/esp8266.py)      *)
(*   - InterpreterStateMachine (src/deltawash_pi/interpreter/              *)
(*                              state_machine.py)                          *)
(*   - SessionManager          (src/deltawash_pi/interpreter/              *)
(*                              session_manager.py)                        *)
(* Timestamps are integers (milliseconds scaled down), confidences are     *)
(* integers (floats scaled), Python None is NoTs / NoStep / NoLed / 0.     *)
(***************************************************************************)
EXTENDS Integers, Sequences, FiniteSets, TLC

\* ---------------------------------------------------------------- bounds
\* Largest frame timestamp the environment produces.
MaxTs == 2
\* Largest timestamp gap between two consecutive frames.
MaxGap == 1
\* Confidence levels 1..MaxConf (scaled floats).
MaxConf == 2
\* Configured duration_ms per step ranges over 1..MaxDuration.
MaxDuration == 2
\* Sessions started per behaviour.
MaxSessions == 2
\* Cap on the length of the uncertainty-event list.
MaxUncertainty == 1
\* A handler's k-th HTTP POST may fail for k in 1..MaxFailAt (0: none fails).
MaxFailAt == 2
\* start_window_frames ranges over 1..MaxWindow.
MaxWindow == 2
\* stop_timeout_ms ranges over 1..MaxTimeout.
MaxTimeout == 2
\* Largest frame timestamp and frame gap the session gate sees.
MaxGateTs == 4
MaxGateGap == 2
\* Sessions the gate opens per behaviour.
MaxGateSessions == 2
\* Annotation windows of the small demo assets lie within 0..MaxAnnEnd.
MaxAnnEnd == 4
\* Annotations per small demo asset.
MaxAnnotations == 2
\* frame_interval_ms of a demo asset ranges over 1..MaxInterval.
MaxInterval == 2
\* Largest frame timestamp of a live capture.
MaxCaptureTs == 3
\* Frames of a mock session (--mock-frames) range over 0..MaxMockFrames.
MaxMockFrames == 28
\* A measured inference latency ranges over 1..MaxLatency.
MaxLatency == 2
\* Replays of one asset per behaviour.
MaxReplays == 2
\* total_frames of a streamed asset ranges over 1..MaxReplayFrames.
MaxReplayFrames == 3
\* Annotations of a streamed asset.
MaxReplayAnnotations == 2
\* Largest session.min_hands of a configuration.
MaxMinHands == 3
\* Readings of the status reporter's clock range over 0..MaxClock.
MaxClock == 5
\* accumulated_ms of the StepState events given to the reporter alone.
MaxRowMs == 1
\* _mock_frame_stream: hands are in the ROI for MockPhaseStart <= frame_id
\* < MockPhaseEnd.
MockPhaseStart == 5
MockPhaseEnd == 25

\* ------------------------------------------------------------ enumerations
\* StepID, by the number the LED payload carries (_STEP_TO_NUMBER); the
\* model keeps the first two of the six steps, in VALID_STEP_IDS order.
StepOrder == <<2, 3>>
Steps == {StepOrder[i] : i \in 1..Len(StepOrder)}
NoStep == 0

StepOrientation == {"NONE", "RIGHT_OVER_LEFT", "LEFT_OVER_RIGHT"}
StepState == {"NOT_STARTED", "IN_PROGRESS", "COMPLETED", "UNCERTAIN"}
LedSignalState == {"CURRENT", "COMPLETED", "IDLE"}
NoLed == "UNSET"
NoTs == -1000

VARIABLES
    \* environment
    now,                 \* timestamp of the latest frame / event
    sessions_started,    \* number of sessions opened so far
    \* Config
    duration_ms,         \* config.steps[step].duration_ms
    has_led_client,      \* InterpreterStateMachine(led_client=...) is set
    led_enabled,         \* config.esp8266.enabled
    has_callback,        \* InterpreterStateMachine(callback=...) is set
    has_reporter,        \* the callback hands the events to a
                         \* ConsoleStatusReporter, as the applications' does
    \* InterpreterStateMachine
    session_id, step_statuses, last_confident_ts, last_published,
    uncertainty_events, active_step_id, led_states,
    \* Esp8266Client
    cl_session_id, cl_disabled, cl_last_error, cl_last_states,
    \* history of the last handler
    posted,              \* /signal POSTs the last handler sent, in order
    wire_prev,           \* per step, state of the last POST of this LED
                         \* session sent before the last handler ran
    last_call,           \* the handler that ran last, with its inputs
    strip,               \* the LED strip: per step, the state the ESP8266
                         \* shows (last payload it accepted, IDLE on /reset)
    led_fault,           \* no /reset has got through yet, or a publish has
                         \* failed since the last one that did
    emitted,             \* what the interpreter emitted while the last
                         \* handler ran, in order: its events and its calls
                         \* of led_client.publish
    confident_span,      \* per step, the timestamps of the first and of the
                         \* latest confident signal the step received in
                         \* the session, kept for the frames of the
                         \* detectors
    seen_orientation,    \* per step, the orientation of the latest confident
                         \* signal with a hand orientation that the step
                         \* received in the session before it completed
    last_step_event,     \* per step, (state, accumulated_ms, orientation) of
                         \* the last StepState event the callback received
    reporter,            \* ConsoleStatusReporter: its fields, the reading of
                         \* its clock, and the grids its last method wrote
    cl_call,             \* the Esp8266Client method that ran last, with its
                         \* arguments and what it returned
    \* SessionConfig
    start_window_frames, stop_timeout_ms, require_motion, min_hands,
    \* SessionManager
    start_window, session_active, current_session_id, session_start_ts,
    last_active_ts,
    \* history of the session gate
    gate_call,           \* the SessionManager method that ran last, with the
                         \* frame it got and the events it emitted
    ok_run,              \* gate_ok frames in a row since the window was last
                         \* cleared, counted up to start_window_frames
    recent_ok_ts,        \* timestamp of the most recent gate_ok frame
    \* demo replay
    asset,               \* the DemoAsset being replayed
    frame_id,            \* frame_id of the next packet of the stream
    elapsed_ms,          \* DemoSignalSynthesizer._elapsed_ms, per segment
    phase,               \* position of the application's run() method
    verify_errors,       \* the errors _verify_asset has logged
    \* capture pipeline
    frame_source,        \* where CaptureApp gets frames and signals from
    logger,              \* SessionLogger: the state of the session logged
    records,             \* the session records appended to the log
    trace,               \* what the last handler emitted, in order
    replays,             \* runs of the frame loop that have terminated
    \* replay source
    fps,                 \* DemoAsset.fps of the asset being streamed
    packets,             \* the packets stream_packets has yielded so far
    fed,                 \* the packets DemoApp has given to the session
                         \* gate, in order: frame_id and timestamp_ms
    \* demo command line
    launch,              \* what deltawash-demo was started with
    exit_status          \* the exit status of the process, once it has one

envVars == <<now, sessions_started>>
cfgVars == <<duration_ms, has_led_client, led_enabled, has_callback,
             has_reporter>>
interpVars == <<session_id, step_statuses, last_confident_ts, last_published,
                uncertainty_events, active_step_id, led_states>>
clientVars == <<cl_session_id, cl_disabled, cl_last_error, cl_last_states>>
histVars == <<posted, wire_prev, last_call, strip, led_fault, emitted,
              seen_orientation, last_step_event, confident_span>>
reporterVars == <<reporter>>
gateCfgVars == <<start_window_frames, stop_timeout_ms, require_motion,
                 min_hands>>
gateVars == <<start_window, session_active, current_session_id,
              session_start_ts, last_active_ts>>
gateHistVars == <<gate_call, ok_run, recent_ok_ts>>
gateAll == <<gateCfgVars, gateVars, gateHistVars>>
demoVars == <<asset, frame_id, elapsed_ms, phase, verify_errors>>
capVars == <<frame_source, logger, records, trace, replays>>
replayVars == <<fps, packets, fed>>
cliVars == <<launch, exit_status>>
pipeVars == <<demoVars, capVars, replayVars, cliVars>>
vars == <<envVars, cfgVars, interpVars, clientVars, histVars, reporterVars, cl_call,
          gateAll, pipeVars>>

\* ------------------------------------------------------------------ helpers
Max0(x) == IF x > 0 THEN x ELSE 0
MinOf(a, b) == IF a < b THEN a ELSE b
MaxOfSet(S) == CHOOSE x \in S : \A y \in S : y <= x

\* StepSignal (types.py); source and notes are not read by the interpreter.
NoSignal == [step_id |-> NoStep, orientation |-> "NONE", confidence |-> 0,
             is_confident |-> FALSE, timestamp_ms |-> NoTs]

\* StepStatus defaults (types.py).
NewStepStatus == [orientation |-> "NONE", state |-> "NOT_STARTED",
                  accumulated_ms |-> 0, completed_ts |-> NoTs,
                  uncertainty_count |-> 0]

\* The mutable state of the interpreter and of its LED client, as one value
\* that the handlers below transform.
Machine == [session_id |-> session_id,
            step_statuses |-> step_statuses,
            last_confident_ts |-> last_confident_ts,
            last_published |-> last_published,
            uncertainty_events |-> uncertainty_events,
            active_step_id |-> active_step_id,
            led_states |-> led_states,
            cl_session_id |-> cl_session_id,
            cl_disabled |-> cl_disabled,
            cl_last_error |-> cl_last_error,
            cl_last_states |-> cl_last_states,
            posted |-> posted,
            wire_prev |-> wire_prev,
            strip |-> strip,
            led_fault |-> led_fault,
            emitted |-> emitted,
            seen_orientation |-> seen_orientation,
            confident_span |-> confident_span,
            reporter |-> reporter]

\* State of the last POST sent for a step in the current LED session.
WireLast(m, step) ==
    LET idx == {i \in DOMAIN m.posted : m.posted[i].step = step}
    IN IF idx = {} THEN m.wire_prev[step] ELSE m.posted[MaxOfSet(idx)].state

\* The machine as a handler finds it: the POST history of the previous
\* handler is folded into wire_prev.
Entering == [Machine EXCEPT !.posted = <<>>,
                            !.reporter.written = <<>>,
                            !.emitted = <<>>,
                            !.wire_prev = [s \in Steps |-> WireLast(Machine, s)]]

\* ------------------------------------------------------------ Esp8266Client
\* Esp8266Client._reset_leds: the POST to /reset turns every LED off when
\* the ESP8266 gets it; a failure is only logged.
ClientResetLeds(m, resetOk) ==
    IF resetOk THEN [m EXCEPT !.strip = [s \in Steps |-> "IDLE"],
                              !.led_fault = FALSE]
    ELSE m

\* Esp8266Client.start_session
ClientStartSession(m, sid, resetOk) ==
    IF ~led_enabled THEN m
    ELSE [ClientResetLeds(m, resetOk) EXCEPT
                   !.cl_session_id = sid,
                   !.cl_disabled = FALSE,
                   !.cl_last_error = FALSE,
                   !.cl_last_states = [s \in Steps |-> NoLed],
                   !.wire_prev = [s \in Steps |-> NoLed],
                   !.posted = <<>>]

\* Esp8266Client.end_session.
ClientEndSession(m) ==
    [m EXCEPT !.cl_session_id = 0,
              !.cl_last_error = FALSE,
              !.cl_last_states = [s \in Steps |-> NoLed]]

\* A duplicate test that never finds a duplicate.
ClientIsDuplicateNever(m, step, state) == FALSE

\* The duplicate test of Esp8266Client.publish.
ClientIsDuplicate(m, step, state) == m.cl_last_states[step] = state

\* A guard that forgets the publisher was disabled.
ClientRefusesUnlessDisabled(m) == ~led_enabled \/ m.cl_session_id = 0

\* The guard of Esp8266Client.publish.
ClientRefuses(m) == ~led_enabled \/ m.cl_disabled \/ m.cl_session_id = 0

\* Esp8266Client.publish: the POST that is the failAt-th of the running
\* handler raises requests.RequestException; the others succeed.
ClientPublish(m, step, state, ts, failAt) ==
    IF ClientRefuses(m) THEN [m |-> m, delivered |-> FALSE]
    ELSE IF ClientIsDuplicate(m, step, state) THEN [m |-> m, delivered |-> TRUE]
    ELSE IF Len(m.posted) + 1 = failAt
         THEN [m |-> [m EXCEPT !.posted = Append(@, [step |-> step, state |-> state,
                                                      timestamp_ms |-> ts, ok |-> FALSE]),
                               !.cl_disabled = TRUE,
                               !.cl_last_error = TRUE,
                               !.led_fault = TRUE],
               delivered |-> FALSE]
         ELSE [m |-> [m EXCEPT !.posted = Append(@, [step |-> step, state |-> state,
                                                      timestamp_ms |-> ts, ok |-> TRUE]),
                               !.cl_last_states[step] = state,
                               !.strip[step] = state],
               delivered |-> TRUE]

\* -------------------------------------------------- InterpreterStateMachine
\* InterpreterEvent, with the details of a StepState event that its
\* consumers read.
InterpreterEvent(kind, step, state, accumulated, orientation) ==
    [kind |-> kind, step_id |-> step, state |-> state,
     accumulated_ms |-> accumulated, orientation |-> orientation]

\* ---------------------------------------------------- ConsoleStatusReporter
\* refresh_interval of the reporter the applications build (0.5 s), in ticks
\* of a quarter of a second.
refresh_interval == 2

\* _RowState defaults
NewRowState == [state |-> "NOT_STARTED", accumulated_ms |-> 0]

\* ConsoleStatusReporter.__init__, with the reading of its clock (now_fn),
\* the grids the running method has written and the time of the last write
\* that was not forced. _dirty_since only feeds _record_latency, which
\* drops it.
\* The ConsoleStatusReporter method that ran last is kept in call.
NewReporter ==
    [session_id |-> 0,
     rows |-> [s \in Steps |-> NewRowState],
     active_step |-> NoStep,
     last_render |-> 0,
     dirty |-> FALSE,
     clock |-> 0,
     written |-> <<>>,
     last_unforced |-> NoTs,
     call |-> "init"]

\* A render that ignores the cadence.
ReporterRenderUnthrottled(rp, force) ==
    IF ~rp.dirty /\ ~force THEN rp
    ELSE [rp EXCEPT !.written = Append(@, [forced |-> force, at |-> rp.clock,
                                           rows |-> rp.rows,
                                           active_step |-> rp.active_step]),
                    !.dirty = FALSE,
                    !.last_render = rp.clock,
                    !.last_unforced = IF force THEN @ ELSE rp.clock]

\* _render
ReporterRender(rp, force) ==
    IF ~rp.dirty /\ ~force THEN rp
    ELSE IF ~force /\ rp.clock - rp.last_render < refresh_interval THEN rp
    ELSE [rp EXCEPT !.written = Append(@, [forced |-> force, at |-> rp.clock,
                                           rows |-> rp.rows,
                                           active_step |-> rp.active_step]),
                    !.dirty = FALSE,
                    !.last_render = rp.clock,
                    !.last_unforced = IF force THEN @ ELSE rp.clock]

\* _mark_dirty
ReporterMarkDirty(rp) == [rp EXCEPT !.dirty = TRUE]

\* ConsoleStatusReporter.start_session
ReporterStartSession(rp, sid) ==
    ReporterRender(
        [ReporterMarkDirty([rp EXCEPT !.call = "start_session",
                                      !.session_id = sid,
                                      !.active_step = NoStep,
                                      !.rows = [s \in Steps |-> NewRowState]])
           EXCEPT !.last_render = 0],
        TRUE)

\* ConsoleStatusReporter.end_session
ReporterEndSession(rp) ==
    IF rp.session_id = 0 THEN [rp EXCEPT !.call = "end_session"]
    ELSE [ReporterRender([rp EXCEPT !.call = "end_session",
                                    !.active_step = NoStep], TRUE)
            EXCEPT !.session_id = 0, !.dirty = FALSE]

\* A handler that takes the state of a StepState event and leaves the
\* dwell of the row as it is.
ReporterHandleEventKeepsMs(rp, ev, sid) ==
    LET r0 == [rp EXCEPT !.call = "handle_event"] IN
    IF r0.session_id = 0 \/ sid # r0.session_id THEN r0
    ELSE IF ev.kind = "step_state" /\ ev.step_id # NoStep
    THEN ReporterRender(
             ReporterMarkDirty([r0 EXCEPT !.rows[ev.step_id].state = ev.state]),
             FALSE)
    ELSE IF ev.kind = "active_step"
    THEN ReporterRender(
             ReporterMarkDirty([r0 EXCEPT !.active_step = ev.step_id]), FALSE)
    ELSE ReporterRender(r0, FALSE)

\* ConsoleStatusReporter.handle_event for an event of session sid; every
\* step has a row (the applications build the reporter on list(StepID)).
ReporterHandleEvent(rp, ev, sid) ==
    LET r0 == [rp EXCEPT !.call = "handle_event"] IN
    IF r0.session_id = 0 \/ sid # r0.session_id THEN r0
    ELSE IF ev.kind = "step_state" /\ ev.step_id # NoStep
    THEN ReporterRender(
             ReporterMarkDirty(
                 [r0 EXCEPT !.rows[ev.step_id] =
                              [state |-> ev.state,
                               accumulated_ms |-> Max0(ev.accumulated_ms)]]),
             FALSE)
    ELSE IF ev.kind = "active_step"
    THEN ReporterRender(
             ReporterMarkDirty([r0 EXCEPT !.active_step = ev.step_id]), FALSE)
    ELSE ReporterRender(r0, FALSE)

\* ConsoleStatusReporter.force_render
ReporterForceRender(rp) ==
    ReporterRender([rp EXCEPT !.call = "force_render"], TRUE)

\* _emit_event: nothing without a session; the event goes to the callback,
\* which drops it when the interpreter was built without one. A call of
\* led_client.publish is noted the same way.
Emit(m, kind, step, state) ==
    IF kind # "led_publish" /\ (m.session_id = 0 \/ ~has_callback) THEN m
    ELSE [m EXCEPT !.emitted =
            Append(@, IF kind = "step_state"
                      THEN InterpreterEvent(kind, step, state,
                               m.step_statuses[step].accumulated_ms,
                               m.step_statuses[step].orientation)
                      ELSE InterpreterEvent(kind, step, state, 0, "NONE"))]

\* _handle_interpreter_event of the applications: the callback hands every
\* event to status_reporter.handle_event.  The reporter changes nothing in
\* the interpreter, so the events one interpreter call emitted (those of
\* m.emitted from index i on, all of session sid) are handed over, in
\* order, when the call returns.
RECURSIVE ReporterFeed(_, _, _)
ReporterFeed(m, sid, i) ==
    IF ~has_reporter \/ i > Len(m.emitted) THEN m
    ELSE ReporterFeed(
             [m EXCEPT !.reporter =
                 IF m.emitted[i].kind # "led_publish"
                 THEN ReporterHandleEvent(@, m.emitted[i], sid)
                 ELSE @],
             sid, i + 1)

\* _send_led_signal
SendLedSignal(m, step, state, ts, force, failAt) ==
    IF ~has_led_client THEN m
    ELSE IF ~force /\ m.led_states[step] = state THEN m
    ELSE LET r == ClientPublish(Emit(m, "led_publish", step, state),
                                step, state, ts, failAt)
         IN IF r.delivered THEN [r.m EXCEPT !.led_states[step] = state] ELSE r.m

\* A recorder that drops the event.
RecordUncertaintyNever(m, reason, ts, step) == m

\* record_uncertainty (the event goes to the callback as well)
RecordUncertainty(m, reason, ts, step) ==
    IF m.session_id = 0 THEN m
    ELSE Emit([m EXCEPT !.uncertainty_events =
                  Append(@, [timestamp_ms |-> ts, reason |-> reason,
                             details |-> step])],
              "uncertainty", step, reason)

\* A publisher whose key leaves the orientation out.
PublishStatusIgnoresOrientation(m, step, ts, force, failAt) ==
    IF m.session_id = 0 THEN m
    ELSE LET st == m.step_statuses[step]
             key == <<st.state, st.accumulated_ms, "NONE">>
         IN IF ~force /\ m.last_published[step] = key THEN m
            ELSE LET m1 == Emit([m EXCEPT !.last_published[step] = key],
                                "step_state", step, st.state)
                 IN IF st.state = "COMPLETED"
                    THEN SendLedSignal(m1, step, "COMPLETED", ts, FALSE, failAt)
                    ELSE m1

\* _publish_status
PublishStatus(m, step, ts, force, failAt) ==
    IF m.session_id = 0 THEN m
    ELSE LET st == m.step_statuses[step]
             key == <<st.state, st.accumulated_ms, st.orientation>>
         IN IF ~force /\ m.last_published[step] = key THEN m
            ELSE LET m1 == Emit([m EXCEPT !.last_published[step] = key],
                                "step_state", step, st.state)
                 IN IF st.state = "COMPLETED"
                    THEN SendLedSignal(m1, step, "COMPLETED", ts, FALSE, failAt)
                    ELSE m1

\* _publish_all
RECURSIVE PublishAll(_, _, _, _, _)
PublishAll(m, i, ts, force, failAt) ==
    IF i > Len(StepOrder) THEN m
    ELSE PublishAll(PublishStatus(m, StepOrder[i], ts, force, failAt),
                    i + 1, ts, force, failAt)

\* A mirror that lights the new active step and leaves the previous one on.
SyncLedActiveKeepsPrevious(m, previous_step, current_step, ts, failAt) ==
    IF ~has_led_client THEN m
    ELSE IF current_step # NoStep
         THEN LET desired == IF m.step_statuses[current_step].state = "COMPLETED"
                             THEN "COMPLETED" ELSE "CURRENT"
              IN SendLedSignal(m, current_step, desired, ts, FALSE, failAt)
         ELSE m

\* A mirror that lights the new active step before it turns the previous
\* one off.
SyncLedActiveCurrentFirst(m, previous_step, current_step, ts, failAt) ==
    IF ~has_led_client THEN m
    ELSE LET m1 == IF current_step # NoStep
                   THEN SendLedSignal(m, current_step,
                            IF m.step_statuses[current_step].state = "COMPLETED"
                            THEN "COMPLETED" ELSE "CURRENT", ts, FALSE, failAt)
                   ELSE m
         IN IF previous_step # NoStep
               /\ m1.step_statuses[previous_step].state # "COMPLETED"
            THEN SendLedSignal(m1, previous_step, "IDLE", ts, TRUE, failAt)
            ELSE m1

\* A mirror that turns the previous step off even when it is COMPLETED.
SyncLedActiveIdlesCompleted(m, previous_step, current_step, ts, failAt) ==
    IF ~has_led_client THEN m
    ELSE LET m1 == IF previous_step # NoStep
                   THEN SendLedSignal(m, previous_step, "IDLE", ts, TRUE, failAt)
                   ELSE m
         IN IF current_step # NoStep
            THEN LET desired == IF m1.step_statuses[current_step].state = "COMPLETED"
                                THEN "COMPLETED" ELSE "CURRENT"
                 IN SendLedSignal(m1, current_step, desired, ts, FALSE, failAt)
            ELSE m1

\* _sync_led_active
SyncLedActive(m, previous_step, current_step, ts, failAt) ==
    IF ~has_led_client THEN m
    ELSE LET m1 == IF previous_step # NoStep
                      /\ m.step_statuses[previous_step].state # "COMPLETED"
                   THEN SendLedSignal(m, previous_step, "IDLE", ts, TRUE, failAt)
                   ELSE m
         IN IF current_step # NoStep
            THEN LET desired == IF m1.step_statuses[current_step].state = "COMPLETED"
                                THEN "COMPLETED" ELSE "CURRENT"
                 IN SendLedSignal(m1, current_step, desired, ts, FALSE, failAt)
            ELSE m1

\* _emit_active_step
EmitActiveStep(m, ts, previous_step, failAt) ==
    IF m.session_id = 0 THEN m
    ELSE SyncLedActive(Emit(m, "active_step", m.active_step_id, ""),
                       previous_step, m.active_step_id, ts, failAt)

\* _set_active_step
SetActiveStep(m, step, ts, failAt) ==
    IF m.active_step_id = step THEN m
    ELSE EmitActiveStep([m EXCEPT !.active_step_id = step], ts,
                        m.active_step_id, failAt)

\* A faulty selection: the first confident signal, whatever its confidence.
SelectFirstConfident(signals) ==
    LET confident == SelectSeq(signals, LAMBDA sig : sig.is_confident)
    IN IF confident = <<>> THEN NoSignal ELSE confident[1]

\* A faulty selection: the signal of highest confidence, confident or not.
SelectMostConfidentOfAll(signals) ==
    IF signals = <<>> THEN NoSignal
    ELSE LET best == MaxOfSet({signals[i].confidence : i \in DOMAIN signals})
             first == CHOOSE i \in DOMAIN signals :
                         /\ signals[i].confidence = best
                         /\ \A j \in DOMAIN signals :
                               signals[j].confidence = best => i <= j
         IN signals[first]

\* _select_active_signal: max() keeps the first of the maximal elements.
SelectActiveSignal(signals) ==
    LET confident == SelectSeq(signals, LAMBDA sig : sig.is_confident)
    IN IF confident = <<>> THEN NoSignal
       ELSE LET best == MaxOfSet({confident[i].confidence : i \in DOMAIN confident})
                first == CHOOSE i \in DOMAIN confident :
                            /\ confident[i].confidence = best
                            /\ \A j \in DOMAIN confident :
                                  confident[j].confidence = best => i <= j
            IN confident[first]

\* signal_map.get(step_id): the dict keeps the last signal of each step.
SignalMapGet(signals, step) ==
    LET idx == {i \in DOMAIN signals : signals[i].step_id = step}
    IN IF idx = {} THEN NoSignal ELSE signals[MaxOfSet(idx)]

\* A faulty guard: completed steps keep being updated.
IsFrozenNever(status) == FALSE

\* _update_step, "if status.state is StepState.COMPLETED: return"
IsFrozen(status) == status.state = "COMPLETED"

\* A faulty dwell: the null check on the last timestamp is missing.
AccumulatedDeltaUngated(last_ts, current_ts) == Max0(current_ts - last_ts)

\* A faulty dwell: the first confident signal of a run counts for a tick.
AccumulatedDeltaCountsFirst(last_ts, current_ts) ==
    IF last_ts # NoTs THEN Max0(current_ts - last_ts) ELSE 1

\* _update_step, the dwell added by a confident signal
AccumulatedDelta(last_ts, current_ts) ==
    IF last_ts # NoTs THEN Max0(current_ts - last_ts) ELSE 0

\* Faulty completion tests: one tick early, and equality excluded.
ReachesThresholdEarly(accumulated, step) == accumulated + 1 >= duration_ms[step]
ReachesThresholdStrict(accumulated, step) == accumulated > duration_ms[step]

\* _update_step, the completion test
ReachesThreshold(accumulated, step) == accumulated >= duration_ms[step]

\* A faulty gap: the last confident timestamp survives an unconfident frame.
TsAfterNoSignalKept(last_ts) == last_ts

\* _update_step, last_confident_ts after a frame without a confident signal
TsAfterNoSignal(last_ts) == NoTs

\* A faulty completion: last_confident_ts is not cleared.
TsAfterConfidentKept(completes, current_ts) == current_ts

\* _update_step, last_confident_ts after a confident signal
TsAfterConfident(completes, current_ts) == IF completes THEN NoTs ELSE current_ts

\* An update that takes the orientation of every confident signal.
OrientationAfterAny(current, signalled) == signalled

\* if signal.orientation is not StepOrientation.NONE:
\*     status.orientation = signal.orientation
OrientationAfter(current, signalled) ==
    IF signalled # "NONE" THEN signalled ELSE current

\* _update_step
UpdateStep(m, step, signal, ts, failAt) ==
    LET status == m.step_statuses[step] IN
    IF IsFrozen(status) THEN m
    ELSE
      LET m1 ==
            IF signal.step_id # NoStep /\ signal.is_confident
            THEN LET orientation1 == OrientationAfter(status.orientation,
                                                      signal.orientation)
                     state1 == IF status.state \in {"NOT_STARTED", "UNCERTAIN"}
                               THEN "IN_PROGRESS" ELSE status.state
                     current_ts == signal.timestamp_ms
                     accumulated1 == status.accumulated_ms
                         + AccumulatedDelta(m.last_confident_ts[step], current_ts)
                     completes == ReachesThreshold(accumulated1, step)
                                  /\ state1 # "COMPLETED"
                 IN [m EXCEPT
                       !.step_statuses[step] =
                           [status EXCEPT
                              !.orientation = orientation1,
                              !.state = IF completes THEN "COMPLETED" ELSE state1,
                              !.accumulated_ms = accumulated1,
                              !.completed_ts = IF completes THEN current_ts ELSE @],
                       !.last_confident_ts[step] =
                           TsAfterConfident(completes, current_ts)]
            ELSE LET m0 == [m EXCEPT !.last_confident_ts[step] = TsAfterNoSignal(@)]
                 IN IF status.state = "IN_PROGRESS"
                    THEN RecordUncertainty(
                           [m0 EXCEPT !.step_statuses[step].state = "UNCERTAIN",
                                      !.step_statuses[step].uncertainty_count = @ + 1],
                           "LOW_CONFIDENCE", ts, step)
                    ELSE m0
          after == m1.step_statuses[step]
          changed == \/ after.state # status.state
                     \/ after.accumulated_ms # status.accumulated_ms
                     \/ after.orientation # status.orientation
      IN IF changed THEN PublishStatus(m1, step, ts, FALSE, failAt) ELSE m1

\* process_signals, the loop over self._step_order
RECURSIVE UpdateSteps(_, _, _, _, _)
UpdateSteps(m, i, signals, ts, failAt) ==
    IF i > Len(StepOrder) THEN m
    ELSE UpdateSteps(UpdateStep(m, StepOrder[i], SignalMapGet(signals, StepOrder[i]),
                                ts, failAt),
                     i + 1, signals, ts, failAt)

\* What a frame's signals add to the history of the session: for a step
\* that has not completed, the orientation of its confident signal, if it
\* has one that carries a hand orientation.
Received(m, signals) ==
    [m EXCEPT !.seen_orientation =
        [s \in Steps |->
           LET idx == {i \in DOMAIN signals :
                          /\ signals[i].step_id = s
                          /\ signals[i].is_confident
                          /\ signals[i].orientation # "NONE"}
           IN IF m.step_statuses[s].state # "COMPLETED" /\ idx # {}
              THEN signals[MaxOfSet(idx)].orientation
              ELSE @[s]]]

\* process_signals
InterpProcessSignals(m, signals, ts, failAt) ==
    IF m.session_id = 0 THEN m
    ELSE LET active_signal == SelectActiveSignal(signals)
             m1 == SetActiveStep(Received(m, signals), active_signal.step_id,
                                 ts, failAt)
         IN UpdateSteps(m1, 1, signals, ts, failAt)

\* A start that keeps the step statuses of the previous session.
InterpStartSessionKeepsStatuses(m, sid, ts, failAt, resetOk) ==
    LET m1 == [m EXCEPT
                 !.session_id = sid,
                 !.uncertainty_events = <<>>,
                 !.last_confident_ts = [s \in Steps |-> NoTs],
                 !.last_published = [s \in Steps |-> <<"NOT_STARTED", 0, "NONE">>],
                 !.active_step_id = NoStep,
                 !.led_states = [s \in Steps |-> NoLed],
                 !.seen_orientation = [s \in Steps |-> "NONE"],
                 !.confident_span = [s \in Steps |-> <<NoTs, NoTs>>]]
        m2 == IF ~has_led_client \/ m1.session_id = 0 THEN m1
              ELSE ClientStartSession(m1, m1.session_id, resetOk)
        m3 == PublishAll(m2, 1, ts, TRUE, failAt)
    IN EmitActiveStep(m3, ts, NoStep, failAt)

\* start_session
InterpStartSession(m, sid, ts, failAt, resetOk) ==
    LET m1 == [m EXCEPT
                 !.session_id = sid,
                 !.uncertainty_events = <<>>,
                 !.step_statuses = [s \in Steps |-> NewStepStatus],
                 !.last_confident_ts = [s \in Steps |-> NoTs],
                 !.last_published = [s \in Steps |-> <<"NOT_STARTED", 0, "NONE">>],
                 !.active_step_id = NoStep,
                 !.led_states = [s \in Steps |-> NoLed],
                 !.seen_orientation = [s \in Steps |-> "NONE"],
                 !.confident_span = [s \in Steps |-> <<NoTs, NoTs>>]]
        \* _begin_led_session
        m2 == IF ~has_led_client \/ m1.session_id = 0 THEN m1
              ELSE ClientStartSession(m1, m1.session_id, resetOk)
        m3 == PublishAll(m2, 1, ts, TRUE, failAt)
    IN EmitActiveStep(m3, ts, NoStep, failAt)

\* A loop that leaves the lamps of the COMPLETED steps on.
RECURSIVE IdleAllButCompleted(_, _, _, _)
IdleAllButCompleted(m, i, ts, failAt) ==
    IF i > Len(StepOrder) THEN m
    ELSE IdleAllButCompleted(
             IF m.step_statuses[StepOrder[i]].state = "COMPLETED" THEN m
             ELSE SendLedSignal(m, StepOrder[i], "IDLE", ts, TRUE, failAt),
             i + 1, ts, failAt)

\* _end_led_session, the loop that forces every step to IDLE
RECURSIVE IdleAll(_, _, _, _)
IdleAll(m, i, ts, failAt) ==
    IF i > Len(StepOrder) THEN m
    ELSE IdleAll(SendLedSignal(m, StepOrder[i], "IDLE", ts, TRUE, failAt),
                 i + 1, ts, failAt)

\* end_session
InterpEndSession(m, ts, failAt) ==
    IF m.session_id = 0 THEN m
    ELSE LET m1 == SetActiveStep(m, NoStep, ts, failAt)
             \* _end_led_session
             m2 == IF ~has_led_client THEN m1
                   ELSE [IdleAll(m1, 1, ts, failAt) EXCEPT
                            !.led_states = [s \in Steps |-> NoLed]]
             m3 == IF has_led_client THEN ClientEndSession(m2) ELSE m2
         IN [m3 EXCEPT !.session_id = 0]

\* ------------------------------------------------------------------ inputs
\* Orientations a detector reports for a step: STEP_3 (like STEP_6, STEP_7)
\* carries a hand orientation, STEP_2 never does.
OrientationsOf(step) == IF step = 3 THEN StepOrientation ELSE {"NONE"}

\* The signals a frame can carry with StepSignal.timestamp_ms = sigTs.  The
\* fields of an unconfident signal are never read but by max() in a faulty
\* selection; it gets the confidence that competes with any confident one
\* (each step has its own confidence_min).
FrameSignals(sigTs) ==
    {sg \in [step_id : Steps, orientation : StepOrientation,
             confidence : 1..MaxConf, is_confident : {TRUE},
             timestamp_ms : {sigTs}] : sg.orientation \in OrientationsOf(sg.step_id)}
    \cup
    [step_id : Steps, orientation : {"NONE"}, confidence : {MaxConf},
     is_confident : {FALSE}, timestamp_ms : {sigTs}]

\* The lists a detector run hands to process_signals: DetectorRunner.evaluate
\* yields one signal per detector (build_default_runner: one detector per
\* step, in step order) and DemoSignalSynthesizer.generate at most one signal,
\* so no step occurs twice; all signals of a frame carry the same timestamp.
SignalLists(sigTs) ==
    {sq \in UNION {[1..n -> FrameSignals(sigTs)] : n \in 0..Len(StepOrder)} :
        \A i, j \in DOMAIN sq : i < j => sq[i].step_id < sq[j].step_id}

\* The outcomes of the HTTP POSTs of one handler.
FailAts == IF has_led_client /\ led_enabled THEN 0..MaxFailAt ELSE {0}

\* Whether the POST to /reset of a start_session gets through.
ResetOutcomes == IF has_led_client /\ led_enabled THEN BOOLEAN ELSE {TRUE}

\* What the last frame carried, per step: the confidence of its confident
\* signal for the step, 0 when it had none.
ConfidentOf(signals) ==
    [s \in Steps |->
        IF \E i \in DOMAIN signals : signals[i].step_id = s /\ signals[i].is_confident
        THEN LET i == CHOOSE i \in DOMAIN signals :
                         signals[i].step_id = s /\ signals[i].is_confident
             IN signals[i].confidence
        ELSE 0]

\* Timestamps of the next frame: never before the latest one.
NextTs == now..MinOf(now + MaxGap, MaxTs)

\* Timestamps a signal of the frame at ts may carry (the demo synthesizer
\* pins them to the annotation window, so they may trail the frame).
SignalTs(ts) == {ts, Max0(ts - 1)}

\* ----------------------------------------------------------------- actions
\* The Esp8266Client method that ran last: its arguments, whether it sent a
\* request, and what publish returned.
ClientCall(op, step, state, delivered) ==
    [op |-> op, step |-> step, state |-> state, delivered |-> delivered,
     was_disabled |-> cl_disabled]

Apply(m) ==
    /\ session_id' = m.session_id
    /\ step_statuses' = m.step_statuses
    /\ last_confident_ts' = m.last_confident_ts
    /\ last_published' = m.last_published
    /\ uncertainty_events' = m.uncertainty_events
    /\ active_step_id' = m.active_step_id
    /\ led_states' = m.led_states
    /\ cl_session_id' = m.cl_session_id
    /\ cl_disabled' = m.cl_disabled
    /\ cl_last_error' = m.cl_last_error
    /\ cl_last_states' = m.cl_last_states
    /\ posted' = m.posted
    /\ wire_prev' = m.wire_prev
    /\ strip' = m.strip
    /\ led_fault' = m.led_fault
    /\ emitted' = m.emitted
    /\ seen_orientation' = m.seen_orientation
    /\ confident_span' = m.confident_span
    /\ reporter' = m.reporter
    /\ last_step_event' =
         [s \in Steps |->
            LET idx == {i \in DOMAIN m.emitted :
                           /\ m.emitted[i].kind = "step_state"
                           /\ m.emitted[i].step_id = s}
                last == m.emitted[MaxOfSet(idx)]
            IN IF idx = {} THEN last_step_event[s]
               ELSE <<last.state, last.accumulated_ms, last.orientation>>]

\* The handler that ran last: for process_signals, what the frame carried
\* (sig_ts is the timestamp of its confident signals, if it had any).
Call(op, sigTs, signals) ==
    [op |-> op,
     sig_ts |-> IF \E s \in Steps : ConfidentOf(signals)[s] > 0 THEN sigTs ELSE NoTs,
     confident |-> ConfidentOf(signals)]

\* InterpreterStateMachine.start_session, called on SessionStarted; session
\* events alternate, so no session is open when it runs.
StartSession ==
    /\ session_id = 0
    /\ sessions_started < MaxSessions
    /\ \E ts \in NextTs : \E resetOk \in ResetOutcomes :
       \E m \in {InterpStartSession(Entering, sessions_started + 1, ts, 0,
                                     resetOk)} :
         /\ Apply(m)
         /\ now' = ts
         /\ sessions_started' = sessions_started + 1
         /\ last_call' = Call("start_session", NoTs, <<>>)
    /\ UNCHANGED <<cfgVars, cl_call, gateAll, pipeVars>>

\* InterpreterStateMachine.process_signals for one frame
ProcessSignals ==
    /\ \E ts \in NextTs : \E sigTs \in SignalTs(ts) :
       \E signals \in SignalLists(sigTs) : \E failAt \in FailAts :
       \E m \in {InterpProcessSignals(Entering, signals, ts, failAt)} :
         /\ Len(m.uncertainty_events) <= MaxUncertainty
         /\ Apply(m)
         /\ now' = ts
         /\ last_call' = IF session_id = 0
                         THEN Call("ignored", NoTs, <<>>)
                         ELSE Call("process_signals", sigTs, signals)
    /\ UNCHANGED <<sessions_started, cfgVars, cl_call, gateAll, pipeVars>>

\* The frames of the runs with LEDs: the signals carry the frame's timestamp
\* (BaseDetector.evaluate) and no orientation; a step has a confident signal
\* or none (an unconfident one is read like none).
LedFrameSignals(ts) ==
    {sq \in SignalLists(ts) :
        \A i \in DOMAIN sq : sq[i].is_confident /\ sq[i].orientation = "NONE"}

\* InterpreterStateMachine.process_signals for one frame of a run with LEDs
LedProcessSignals ==
    /\ \E ts \in NextTs : \E signals \in LedFrameSignals(ts) :
       \E failAt \in FailAts :
       \E m \in {InterpProcessSignals(Entering, signals, ts, failAt)} :
         /\ Len(m.uncertainty_events) <= MaxUncertainty
         /\ Apply(m)
         /\ now' = ts
         /\ last_call' = IF session_id = 0
                         THEN Call("ignored", NoTs, <<>>)
                         ELSE Call("process_signals", ts, signals)
    /\ UNCHANGED <<sessions_started, cfgVars, cl_call, gateAll, pipeVars>>

\* InterpreterStateMachine.process_signals for one frame of the detectors:
\* every signal carries the frame's timestamp (BaseDetector.evaluate).  In
\* a session the timestamp of each step's confident signal is noted as the
\* latest one, and as the first if the step had none.
DetectorProcessSignals ==
    /\ \E ts \in NextTs : \E signals \in SignalLists(ts) :
       \E failAt \in FailAts :
       \E m0 \in {[Entering EXCEPT !.confident_span =
                     [s \in Steps |->
                        IF session_id # 0 /\ ConfidentOf(signals)[s] > 0
                        THEN <<IF @[s][1] = NoTs THEN ts ELSE @[s][1], ts>>
                        ELSE @[s]]]} :
       \E m \in {InterpProcessSignals(m0, signals, ts, failAt)} :
         /\ Len(m.uncertainty_events) <= MaxUncertainty
         /\ Apply(m)
         /\ now' = ts
         /\ last_call' = IF session_id = 0
                         THEN Call("ignored", NoTs, <<>>)
                         ELSE Call("process_signals", ts, signals)
    /\ UNCHANGED <<sessions_started, cfgVars, cl_call, gateAll, pipeVars>>

\* InterpreterStateMachine.end_session, called on SessionEnded
EndSession ==
    /\ \E ts \in NextTs : \E failAt \in FailAts :
       \E m \in {InterpEndSession(Entering, ts, failAt)} :
         /\ Apply(m)
         /\ now' = ts
         /\ last_call' = Call("end_session", NoTs, <<>>)
    /\ UNCHANGED <<sessions_started, cfgVars, cl_call, gateAll, pipeVars>>

\* ------------------------------------------------- Esp8266Client, driven
\* Esp8266Client.start_session with the id of a new session
LedStartSession ==
    /\ sessions_started < MaxSessions
    /\ \E resetOk \in ResetOutcomes :
       \E m \in {ClientStartSession(Entering, sessions_started + 1, resetOk)} :
         Apply(m)
    /\ sessions_started' = sessions_started + 1
    /\ cl_call' = ClientCall("start_session", NoStep, NoLed, FALSE)
    /\ UNCHANGED <<now, cfgVars, last_call, gateAll, pipeVars>>

\* Esp8266Client.publish; the POST, if one is sent, may fail.
LedPublish ==
    /\ \E step \in Steps : \E state \in LedSignalState :
       \E ts \in NextTs : \E failAt \in FailAts :
       \E r \in {ClientPublish(Entering, step, state, ts, failAt)} :
         /\ Apply(r.m)
         /\ now' = ts
         /\ cl_call' = ClientCall("publish", step, state, r.delivered)
    /\ UNCHANGED <<sessions_started, cfgVars, last_call, gateAll, pipeVars>>

\* Esp8266Client.end_session
LedEndSession ==
    /\ \E m \in {ClientEndSession(Entering)} : Apply(m)
    /\ cl_call' = ClientCall("end_session", NoStep, NoLed, FALSE)
    /\ UNCHANGED <<envVars, cfgVars, last_call, gateAll, pipeVars>>

\* ------------------------------------------------------------ session gate
\* SessionConfig of the tests' configuration, floats scaled by ten.
motion_threshold == 5
relative_motion_threshold == 3

\* FramePacket as the gate reads it: timestamp, motion metrics, and the
\* metadata keys hand_count and hands_in_roi (the latter may be absent).
Packets(ts) ==
    [timestamp_ms : {ts},
     hand_count : (min_hands - 1)..min_hands,
     has_hands_in_roi : BOOLEAN,
     hands_in_roi : (min_hands - 1)..min_hands,
     mean_velocity : (motion_threshold - 1)..motion_threshold,
     relative_motion : (relative_motion_threshold - 1)..relative_motion_threshold]

\* SessionManager._extract_int
ExtractInt(present, value, default) == IF present THEN value ELSE default

\* SessionManager._meets_start_conditions
MeetsStartConditions(packet) ==
    LET hands_total == ExtractInt(TRUE, packet.hand_count, 0)
        hands_in_roi == ExtractInt(packet.has_hands_in_roi,
                                   packet.hands_in_roi, hands_total)
    IN IF hands_total < min_hands THEN FALSE
       ELSE IF hands_in_roi < min_hands THEN FALSE
       ELSE IF require_motion
               /\ packet.mean_velocity < motion_threshold THEN FALSE
       ELSE IF require_motion
               /\ packet.relative_motion < relative_motion_threshold THEN FALSE
       ELSE TRUE

\* The mutable state of the SessionManager, with the events it has emitted
\* through its callback since the running method was entered.
Gate ==
    [start_window |-> start_window,
     session_active |-> session_active,
     current_session_id |-> current_session_id,
     session_start_ts |-> session_start_ts,
     last_active_ts |-> last_active_ts,
     events |-> <<>>]

SessionEvent(type, sid, ts, reason, duration) ==
    [event_type |-> type, session_id |-> sid, timestamp_ms |-> ts,
     reason |-> reason, duration_ms |-> duration]

\* The type and session of the last event the callback was given by any
\* method so far, after one more method has emitted events.
LastEmitted(events) ==
    IF events = <<>> THEN gate_call.last_event
    ELSE [event_type |-> events[Len(events)].event_type,
          session_id |-> events[Len(events)].session_id]

\* deque(maxlen=start_window_frames).append
WindowAppend(window, gate_ok) ==
    IF Len(window) = start_window_frames
    THEN Tail(window) \o <<gate_ok>>
    ELSE Append(window, gate_ok)

\* A start test that forgets the window must be full.
WindowAllOkAnyLength(window) ==
    \A i \in 1..Len(window) : window[i]

\* len(window) == maxlen and all(window)
WindowAllOk(window) ==
    /\ Len(window) = start_window_frames
    /\ \A i \in 1..Len(window) : window[i]

\* A stop test that excludes equality.
TimedOutStrict(elapsed) == elapsed > stop_timeout_ms

\* A stop test that never fires.
TimedOutNever(elapsed) == FALSE

\* elapsed >= stop_timeout_ms
TimedOut(elapsed) == elapsed >= stop_timeout_ms

\* SessionManager._start_session; sid stands for the fresh uuid4.
GateStartSession(g, ts, sid) ==
    [g EXCEPT !.session_active = TRUE,
              !.current_session_id = sid,
              !.session_start_ts = ts,
              !.last_active_ts = ts,
              !.events = Append(@, SessionEvent("session_started", sid, ts,
                                                "", 0))]

\* An end of session that leaves the start window as it is.
GateEndSessionKeepsWindow(g, ts, reason) ==
    IF ~g.session_active \/ g.current_session_id = 0
       \/ g.session_start_ts = NoTs
    THEN g
    ELSE [g EXCEPT !.events = Append(@, SessionEvent("session_ended",
                                        g.current_session_id, ts, reason,
                                        Max0(ts - g.session_start_ts))),
                   !.session_active = FALSE,
                   !.current_session_id = 0,
                   !.session_start_ts = NoTs,
                   !.last_active_ts = NoTs]

\* An end of session that emits the event and leaves the session open.
GateEndSessionStaysActive(g, ts, reason) ==
    IF ~g.session_active \/ g.current_session_id = 0
       \/ g.session_start_ts = NoTs
    THEN g
    ELSE [g EXCEPT !.events = Append(@, SessionEvent("session_ended",
                                        g.current_session_id, ts, reason,
                                        Max0(ts - g.session_start_ts))),
                   !.last_active_ts = ts,
                   !.start_window = <<>>]

\* SessionManager._end_session
GateEndSession(g, ts, reason) ==
    IF ~g.session_active \/ g.current_session_id = 0
       \/ g.session_start_ts = NoTs
    THEN g
    ELSE [g EXCEPT !.events = Append(@, SessionEvent("session_ended",
                                        g.current_session_id, ts, reason,
                                        Max0(ts - g.session_start_ts))),
                   !.session_active = FALSE,
                   !.current_session_id = 0,
                   !.session_start_ts = NoTs,
                   !.last_active_ts = NoTs,
                   !.start_window = <<>>]

\* SessionManager.process_frame
GateProcessFrame(g, packet, sid) ==
    LET gate_ok == MeetsStartConditions(packet)
        g1 == [g EXCEPT !.start_window = WindowAppend(@, gate_ok)]
    IN IF ~g1.session_active
       THEN IF WindowAllOk(g1.start_window)
            THEN GateStartSession(g1, packet.timestamp_ms, sid)
            ELSE g1
       ELSE IF gate_ok
            THEN [g1 EXCEPT !.last_active_ts = packet.timestamp_ms]
            ELSE IF g1.last_active_ts # NoTs
                    /\ TimedOut(packet.timestamp_ms - g1.last_active_ts)
                 THEN GateEndSession(g1, packet.timestamp_ms, "timeout")
                 ELSE g1

\* A reset that ends the session at the timestamp of the last frame seen.
GateResetAtLastFrame(g) ==
    LET g1 == IF g.session_active
              THEN GateEndSession(g, now, "reset")
              ELSE g
    IN [g1 EXCEPT !.start_window = <<>>]

\* SessionManager.reset
GateReset(g) ==
    LET g1 == IF g.session_active
              THEN GateEndSession(g, IF g.last_active_ts = NoTs THEN 0
                                     ELSE g.last_active_ts, "reset")
              ELSE g
    IN [g1 EXCEPT !.start_window = <<>>]

ApplyGate(g) ==
    /\ start_window' = g.start_window
    /\ session_active' = g.session_active
    /\ current_session_id' = g.current_session_id
    /\ session_start_ts' = g.session_start_ts
    /\ last_active_ts' = g.last_active_ts

\* Frame timestamps of the capture loop never decrease.
NextGateTs == now..MinOf(now + MaxGateGap, MaxGateTs)

\* SessionManager.process_frame on the next frame of the stream
ProcessFrame ==
    /\ session_active \/ sessions_started < MaxGateSessions
    /\ \E ts \in NextGateTs : \E packet \in Packets(ts) :
       \E g \in {GateProcessFrame(Gate, packet, sessions_started + 1)} :
         /\ ApplyGate(g)
         /\ now' = ts
         /\ sessions_started' = IF g.current_session_id = sessions_started + 1
                                THEN sessions_started + 1
                                ELSE sessions_started
         /\ gate_call' = [op |-> "process_frame", ts |-> ts,
                          gate_ok |-> MeetsStartConditions(packet),
                          events |-> g.events,
                          last_event |-> LastEmitted(g.events)]
         /\ ok_run' = IF session_active /\ ~g.session_active THEN 0
                      ELSE IF MeetsStartConditions(packet)
                           THEN MinOf(ok_run + 1, start_window_frames)
                           ELSE 0
         /\ recent_ok_ts' = IF MeetsStartConditions(packet) THEN ts
                            ELSE recent_ok_ts
    /\ UNCHANGED <<cfgVars, interpVars, clientVars, histVars,
                   reporterVars, cl_call,
                   gateCfgVars, pipeVars>>

\* SessionManager.reset
Reset ==
    /\ \E g \in {GateReset(Gate)} :
         /\ ApplyGate(g)
         /\ gate_call' = [op |-> "reset", ts |-> now, gate_ok |-> FALSE,
                          events |-> g.events,
                          last_event |-> LastEmitted(g.events)]
    /\ ok_run' = 0
    /\ UNCHANGED <<envVars, cfgVars, interpVars, clientVars, histVars,
                   reporterVars,
                   cl_call, gateCfgVars, recent_ok_ts, pipeVars>>

\* ------------------------------------------ ConsoleStatusReporter, driven
\* The reporter as a method finds it.
EnteringReporter == [reporter EXCEPT !.written = <<>>]

\* The events the callback hands over: StepState of a step that has begun,
\* ActiveStep of a step or of none, Uncertainty.
ReporterEvents ==
    {InterpreterEvent("step_state", s, st, ms, "NONE") :
        s \in Steps, st \in {"IN_PROGRESS", "COMPLETED"}, ms \in {MaxRowMs}}
    \cup {InterpreterEvent("active_step", s, "", 0, "NONE") :
             s \in Steps \cup {NoStep}}
    \cup {InterpreterEvent("uncertainty", s, "LOW_CONFIDENCE", 0, "NONE") :
             s \in Steps}

\* time.monotonic() moves on between two calls.
Tick ==
    /\ reporter.clock < MaxClock
    /\ reporter' = [EnteringReporter EXCEPT !.clock = @ + 1]
    /\ UNCHANGED <<envVars, cfgVars, interpVars, clientVars, histVars,
                   cl_call, gateAll, pipeVars>>

\* ConsoleStatusReporter.start_session, called on SessionStarted
RpStartSession ==
    /\ reporter.session_id = 0
    /\ reporter' = ReporterStartSession(EnteringReporter, 1)
    /\ UNCHANGED <<envVars, cfgVars, interpVars, clientVars, histVars,
                   cl_call, gateAll, pipeVars>>

\* ConsoleStatusReporter.end_session, called on SessionEnded
RpEndSession ==
    /\ reporter' = ReporterEndSession(EnteringReporter)
    /\ UNCHANGED <<envVars, cfgVars, interpVars, clientVars, histVars,
                   cl_call, gateAll, pipeVars>>

\* ConsoleStatusReporter.handle_event, called by the interpreter's callback;
\* the event carries the session id that the same SessionStarted gave to
\* the reporter.
RpHandleEvent ==
    /\ \E ev \in ReporterEvents :
         reporter' = ReporterHandleEvent(EnteringReporter, ev, 1)
    /\ UNCHANGED <<envVars, cfgVars, interpVars, clientVars, histVars,
                   cl_call, gateAll, pipeVars>>

\* ConsoleStatusReporter.force_render
RpForceRender ==
    /\ reporter' = ReporterForceRender(EnteringReporter)
    /\ UNCHANGED <<envVars, cfgVars, interpVars, clientVars, histVars,
                   cl_call, gateAll, pipeVars>>

\* ------------------------------------------------------------- demo replay
\* StepAnnotation (replay.py); load_manifest rejects end_ms <= start_ms and
\* start_ms < 0, and accepts windows that overlap.
Annotations(maxEnd) ==
    {a \in [step_id : Steps, orientation : StepOrientation,
            start_ms : 0..maxEnd, end_ms : 1..maxEnd] :
        /\ a.start_ms < a.end_ms
        /\ a.orientation \in OrientationsOf(a.step_id)}

\* DemoAsset, with the frame interval stream_packets derives from fps,
\* max(1, round(1000 / fps)), in place of fps.
DemoAsset(annotations, total_frames, interval) ==
    [annotations |-> annotations, total_frames |-> total_frames,
     frame_interval_ms |-> interval]

NoAsset == DemoAsset(<<>>, 0, 1)
NoAnnotation == [step_id |-> NoStep, orientation |-> "NONE",
                 start_ms |-> 0, end_ms |-> 0]

\* The asset of the replay scenarios, one tick for 200 ms: STEP_2 annotated
\* 0-3000 ms, STEP_3 3200-6200 ms RIGHT_OVER_LEFT, at 5 frames per second.
ScenarioAsset ==
    DemoAsset(<<[step_id |-> 2, orientation |-> "NONE",
                 start_ms |-> 0, end_ms |-> 15],
                [step_id |-> 3, orientation |-> "RIGHT_OVER_LEFT",
                 start_ms |-> 16, end_ms |-> 31]>>, 32, 1)

\* The manifests replayed: every asset of MaxAnnEnd frames with up to
\* maxAnnotations annotation windows.
DemoAssets(maxAnnotations) ==
    {DemoAsset(an, MaxAnnEnd, i) :
        an \in UNION {[1..n -> Annotations(MaxAnnEnd)] : n \in 0..maxAnnotations},
        i \in 1..MaxInterval}

\* _annotation_for_timestamp: the first annotation whose window holds ts.
AnnotationForTimestamp(annotations, ts) ==
    LET idx == {i \in DOMAIN annotations :
                   annotations[i].start_ms <= ts /\ ts < annotations[i].end_ms}
    IN IF idx = {} THEN NoAnnotation
       ELSE annotations[CHOOSE i \in idx : \A j \in idx : i <= j]

\* DemoReplay.stream_packets followed by boost_demo_packet: the packet of a
\* frame, as the gate reads it, with its annotation. The boosted motion,
\* max(0.5, 1.1 * threshold), lies above the threshold.
DemoPacket(a, fid) ==
    [frame_id |-> fid,
     timestamp_ms |-> fid * a.frame_interval_ms,
     hand_count |-> 2, has_hands_in_roi |-> TRUE, hands_in_roi |-> 2,
     mean_velocity |-> motion_threshold + 1,
     relative_motion |-> relative_motion_threshold + 1,
     annotation |-> AnnotationForTimestamp(a.annotations,
                                           fid * a.frame_interval_ms)]

\* _prime_session: the index-th warmup packet (0-based).
WarmupPacket(index) ==
    [frame_id |-> index - start_window_frames,
     timestamp_ms |-> 0 - (start_window_frames - index),
     hand_count |-> 2, has_hands_in_roi |-> TRUE, hands_in_roi |-> 2,
     mean_velocity |-> motion_threshold,
     relative_motion |-> relative_motion_threshold,
     annotation |-> NoAnnotation]

\* DemoSignalSynthesizer.generate: the signals of a packet and the new
\* _elapsed_ms; a window has end_ms > start_ms, so its duration is positive.
SynthGenerate(el, packet, interval) ==
    LET ann == packet.annotation
        duration == Max0(ann.end_ms - ann.start_ms)
        elapsed == IF ann \in DOMAIN el THEN el[ann] ELSE 0
        remaining == Max0(duration - elapsed)
        is_last_frame == packet.timestamp_ms + interval >= ann.end_ms
        timestamp == IF is_last_frame THEN ann.start_ms + duration
                     ELSE IF elapsed = 0 THEN ann.start_ms
                     ELSE ann.start_ms + elapsed
        elapsed1 == IF is_last_frame THEN duration
                    ELSE elapsed + MinOf(interval, remaining)
    IN IF ann = NoAnnotation \/ remaining = 0
       THEN [signals |-> <<>>, elapsed |-> el]
       ELSE [signals |-> <<[step_id |-> ann.step_id,
                            orientation |-> ann.orientation,
                            confidence |-> MaxConf, is_confident |-> TRUE,
                            timestamp_ms |-> timestamp]>>,
             elapsed |-> [x \in DOMAIN el \cup {ann} |->
                             IF x = ann THEN elapsed1 ELSE el[x]]]

\* DetectorRunner.evaluate on a replay packet: one signal per step, with the
\* frame's timestamp; the detector of the hinted step (metadata demo_step)
\* reports it with confidence 1.0, the others have no image to score.
HintedSignals(packet) ==
    [i \in 1..Len(StepOrder) |->
        IF packet.annotation.step_id = StepOrder[i]
        THEN [step_id |-> StepOrder[i],
              orientation |-> packet.annotation.orientation,
              confidence |-> MaxConf, is_confident |-> TRUE,
              timestamp_ms |-> packet.timestamp_ms]
        ELSE [step_id |-> StepOrder[i], orientation |-> "NONE",
              confidence |-> 0, is_confident |-> FALSE,
              timestamp_ms |-> packet.timestamp_ms]]

\* A pipeline that decides on the session as it was before the frame.
InterpretsFrameAsBefore(before, g) == before.session_active

\* _process_packet reads session_manager.session_active after process_frame
\* has returned: before is the gate as the frame found it, g as it left it.
InterpretsFrame(before, g) == g.session_active

\* DemoApp._handle_session_event, for the events one gate call emitted.
RECURSIVE DemoHandleSessionEvents(_, _)
DemoHandleSessionEvents(m, events) ==
    IF events = <<>> THEN m
    ELSE LET ev == Head(events)
             m1 == IF ev.event_type = "session_started"
                   THEN InterpStartSession(m, ev.session_id, ev.timestamp_ms,
                                           0, TRUE)
                   ELSE InterpEndSession(m, ev.timestamp_ms, 0)
             m2 == [ReporterFeed(m1, ev.session_id, Len(m.emitted) + 1)
                      EXCEPT !.reporter =
                       IF ev.event_type = "session_started"
                       THEN ReporterStartSession(@, ev.session_id)
                       ELSE ReporterEndSession(@)]
         IN DemoHandleSessionEvents(m2, Tail(events))

\* The sum of end_ms - start_ms over the annotations of a step.
RECURSIVE AnnotationDuration(_, _)
AnnotationDuration(annotations, step) ==
    IF annotations = <<>> THEN 0
    ELSE (IF Head(annotations).step_id = step
          THEN Head(annotations).end_ms - Head(annotations).start_ms
          ELSE 0) + AnnotationDuration(Tail(annotations), step)

\* The steps an asset annotates.
AnnotatedSteps(annotations) ==
    {annotations[i].step_id : i \in DOMAIN annotations}

\* _verify_asset, last_orientation: the orientation of the last annotation
\* of the step in the manifest's order.
LastOrientation(annotations, step) ==
    LET idx == {i \in DOMAIN annotations : annotations[i].step_id = step}
    IN annotations[MaxOfSet(idx)].orientation

\* A verifier that takes the annotation as the oracle of completion.
ShouldCompleteAlways(annotation_duration, required_ms) == TRUE

\* _verify_asset, should_complete
ShouldComplete(annotation_duration, required_ms) ==
    annotation_duration >= required_ms

\* A verifier that takes an annotation without orientation for one.
OrientationMismatchStrict(expected, actual) == actual # expected

\* _verify_asset, the orientation test of a completed step
OrientationMismatch(expected, actual) ==
    expected # "NONE" /\ actual # expected

\* _verify_asset: the errors it logs, as (step, kind) pairs; it returns
\* True when there are none.
VerifyAsset(a, statuses) ==
    LET did_complete(s) == statuses[s].state = "COMPLETED"
        should_complete(s) ==
            ShouldComplete(AnnotationDuration(a.annotations, s), duration_ms[s])
        annotated == AnnotatedSteps(a.annotations)
    IN {<<s, "should_have_completed">> :
            s \in {x \in annotated : should_complete(x) /\ ~did_complete(x)}}
       \cup
       {<<s, "should_not_have_completed">> :
            s \in {x \in annotated : ~should_complete(x) /\ did_complete(x)}}
       \cup
       {<<s, "orientation_mismatch">> :
            s \in {x \in annotated :
                      /\ did_complete(x)
                      /\ OrientationMismatch(LastOrientation(a.annotations, x),
                                             statuses[x].orientation)}}
       \cup
       {<<s, "unexpectedly_completed">> :
            s \in {x \in Steps \ annotated : did_complete(x)}}

\* load_manifest on the file --manifest names: the DemoManifest, or the
\* exception raised. A file that is not JSON fails in json.loads, a step_id
\* or orientation outside the enumeration in StepID() or StepOrientation();
\* the loader's own checks (file exists, object root, version, assets array,
\* ids, fps, total_frames, roi, end_ms > start_ms) raise ManifestError.
LoadManifest(file) ==
    CASE file = "valid" -> "DemoManifest"
      [] file = "not_json" -> "JSONDecodeError"
      [] file = "unknown_enum_value" -> "ValueError"
      [] OTHER -> "ManifestError"

\* main up to app.run(), and run up to the stream: load_cli_config ends the
\* process with SystemExit(message), which is exit status 1; main returns 2
\* on a ManifestError of DemoApp(), any other exception leaves main and ends
\* the process with status 1; run returns 2 when the asset is not listed.
DemoMain ==
    /\ phase = "main"
    /\ IF launch.config # "valid"
       THEN exit_status' = 1 /\ phase' = "exited"
       ELSE IF LoadManifest(launch.manifest) = "ManifestError"
            THEN exit_status' = 2 /\ phase' = "exited"
            ELSE IF LoadManifest(launch.manifest) # "DemoManifest"
                 THEN exit_status' = 1 /\ phase' = "exited"
                 ELSE IF ~launch.asset_listed
                      THEN exit_status' = 2 /\ phase' = "exited"
                      ELSE exit_status' = exit_status /\ phase' = "start"
    /\ UNCHANGED <<envVars, cfgVars, interpVars, clientVars, histVars,
                   reporterVars,
                   cl_call, gateAll, asset, frame_id, elapsed_ms,
                   verify_errors, capVars, replayVars, launch>>

\* What is kept of a packet given to session_manager.process_frame.
FedPacket(packet) ==
    [frame_id |-> packet.frame_id, timestamp_ms |-> packet.timestamp_ms]

\* DemoApp._prime_session: start_window_frames warmup packets through the
\* session gate; the last one opens the session.
RECURSIVE PrimeGate(_, _, _)
PrimeGate(g, index, sid) ==
    IF index >= start_window_frames THEN g
    ELSE PrimeGate(GateProcessFrame(g, WarmupPacket(index), sid),
                   index + 1, sid)

\* DemoApp.run up to the stream: _prime_session
DemoPrime ==
    /\ phase = "start"
    /\ \E g \in {PrimeGate(Gate, 0, sessions_started + 1)} :
       \E m \in {DemoHandleSessionEvents(Entering, g.events)} :
         /\ ApplyGate(g)
         /\ Apply(m)
         /\ sessions_started' = IF g.session_active THEN sessions_started + 1
                                ELSE sessions_started
    /\ fed' = fed \o [i \in 1..start_window_frames |->
                         FedPacket(WarmupPacket(i - 1))]
    /\ phase' = "stream"
    /\ UNCHANGED <<cliVars, now, cfgVars, last_call, cl_call, gateCfgVars,
                   gateHistVars, asset, frame_id, elapsed_ms, verify_errors,
                   capVars, fps, packets>>

\* DemoApp._process_packet on the next packet of the stream: the signals of
\* the synthesizer or, when it has none, of the detectors.
DemoFrame ==
    /\ phase = "stream"
    /\ frame_id < asset.total_frames
    /\ \E packet \in {DemoPacket(asset, frame_id)} :
       \E g \in {GateProcessFrame(Gate, packet, sessions_started + 1)} :
       \E m0 \in {DemoHandleSessionEvents(Entering, g.events)} :
       \E syn \in {SynthGenerate(elapsed_ms, packet, asset.frame_interval_ms)} :
       \E signals \in {IF syn.signals # <<>> THEN syn.signals
                       ELSE HintedSignals(packet)} :
         /\ ApplyGate(g)
         /\ sessions_started' = IF g.current_session_id = sessions_started + 1
                                THEN sessions_started + 1
                                ELSE sessions_started
         /\ IF InterpretsFrame(Gate, g)
            THEN /\ Apply(ReporterFeed(
                            InterpProcessSignals(m0, signals,
                                                 packet.timestamp_ms, 0),
                            g.current_session_id, Len(m0.emitted) + 1))
                 /\ elapsed_ms' = syn.elapsed
                 /\ last_call' = Call("process_signals",
                                      packet.timestamp_ms, signals)
            ELSE /\ Apply(m0)
                 /\ elapsed_ms' = elapsed_ms
                 /\ last_call' = Call("not_called", NoTs, <<>>)
         /\ now' = packet.timestamp_ms
         /\ fed' = Append(fed, FedPacket(packet))
    /\ frame_id' = frame_id + 1
    /\ UNCHANGED <<cliVars, cfgVars, cl_call, gateCfgVars, gateHistVars,
                   asset, phase, verify_errors, capVars, fps, packets>>

\* DemoApp.run after the stream: session_manager.reset(), then _verify_asset
\* (run with --verify).
DemoFinish ==
    /\ phase = "stream"
    /\ frame_id = asset.total_frames
    /\ \E g \in {GateReset(Gate)} :
       \E m \in {DemoHandleSessionEvents(Entering, g.events)} :
         /\ ApplyGate(g)
         /\ Apply(m)
         /\ verify_errors' = IF launch.verify
                             THEN VerifyAsset(asset, m.step_statuses)
                             ELSE {}
    /\ exit_status' = IF verify_errors' # {} THEN 3 ELSE 0
    /\ phase' = "done"
    /\ UNCHANGED <<launch, envVars, cfgVars, last_call, cl_call, gateCfgVars,
                   gateHistVars, asset, frame_id, elapsed_ms, capVars,
                   replayVars>>

\* ------------------------------------------------------------ replay source
\* Python's round(n / d) for positive integers: to the nearest integer, a
\* tie to the even one.
RoundHalfEven(n, d) ==
    LET q == n \div d
        r == n % d
    IN IF 2 * r < d THEN q
       ELSE IF 2 * r > d THEN q + 1
            ELSE IF q % 2 = 0 THEN q ELSE q + 1

\* A frame interval that is not clamped.
FrameIntervalMsUnclamped(f) == RoundHalfEven(1000, f)

\* stream_packets: frame_interval_ms = max(1, int(round(1000.0 / asset.fps)))
FrameIntervalMs(f) ==
    IF RoundHalfEven(1000, f) < 1 THEN 1 ELSE RoundHalfEven(1000, f)

\* stream_packets: the packet of frame fid as it is yielded, before
\* boost_demo_packet; its metadata carry the annotation, if there is one.
ReplayPacket(a, fid) ==
    [frame_id |-> fid,
     timestamp_ms |-> fid * a.frame_interval_ms,
     mean_velocity |-> 0,
     relative_motion |-> 0,
     annotation |-> AnnotationForTimestamp(a.annotations,
                                           fid * a.frame_interval_ms)]

\* The fps values of the manifests streamed (load_manifest takes any number
\* above 0): 1000 / fps is an integer, lies between two, is a tie, or is
\* below one half.
ReplayFps == {1, 3, 400, 1500, 2000, 3000}

\* The annotation windows of the manifests streamed (end_ms > start_ms),
\* which may overlap.
ReplayAnnotations ==
    {a \in [step_id : Steps, orientation : StepOrientation,
            start_ms : {0, 1, 2, 1000}, end_ms : {1, 2, 1000, 2000}] :
        /\ a.start_ms < a.end_ms
        /\ a.orientation \in OrientationsOf(a.step_id)}

\* DemoReplay.stream_packets yields the next packet of the asset.
ReplayStream ==
    /\ phase = "replay"
    /\ frame_id < asset.total_frames
    /\ packets' = Append(packets, ReplayPacket(asset, frame_id))
    /\ frame_id' = frame_id + 1
    /\ UNCHANGED <<cliVars, envVars, cfgVars, interpVars, clientVars, histVars,
                   reporterVars,
                   cl_call, gateAll, asset, elapsed_ms, phase, verify_errors,
                   capVars, fps, fed>>

\* --------------------------------------------------------- capture pipeline
\* The process is running: it has no exit status.
NoExit == 0 - 1

\* No inference latency was measured (inference_latency_ms=None).
NoLatency == 0

\* _SessionState (logging/sessions.py) of the session being logged; the
\* logger's dict holds at most one, the gate has one session at a time.
\* The confidence sums and the per-step stats add up the same signals as the
\* two counters kept here.
LoggerState(sid, start_ts) ==
    [session_id |-> sid, start_ts_ms |-> start_ts,
     model_inference_count |-> 0, heuristic_fallback_count |-> 0,
     inference_latency_sum_ms |-> 0, inference_latency_samples |-> 0,
     fallback_events |-> <<>>]

NoLog == LoggerState(0, NoTs)

\* SessionLogger.record_step_signals; from_model: the signals have source
\* MODEL (MLStepDetector), not DEMO (DemoSignalSynthesizer).
RecordStepSignals(lg, sid, signals, from_model, latency) ==
    IF sid = 0 \/ lg.session_id # sid THEN lg
    ELSE LET saw_model_signal == from_model /\ signals # <<>>
             timed == latency # NoLatency /\ saw_model_signal
         IN [lg EXCEPT
               !.model_inference_count =
                   @ + (IF from_model THEN Len(signals) ELSE 0),
               !.heuristic_fallback_count =
                   @ + (IF from_model THEN 0 ELSE Len(signals)),
               !.inference_latency_sum_ms = @ + (IF timed THEN latency ELSE 0),
               !.inference_latency_samples = @ + (IF timed THEN 1 ELSE 0)]

\* SessionLogger.record_fallback; no caller in the package (_process_packet
\* calls record_step_signals only).
RecordFallback(lg, sid, ts, reason) ==
    IF sid = 0 \/ lg.session_id # sid THEN lg
    ELSE [lg EXCEPT !.fallback_events =
              Append(@, [timestamp_ms |-> ts, reason |-> reason])]

\* SessionLogger._build_record: the fields of the record that are not fixed
\* by the configuration or derived from the fields kept here.
BuildRecord(lg, ev, statuses, uncertainties) ==
    [session_id |-> lg.session_id,
     start_ts |-> lg.start_ts_ms,
     end_ts |-> ev.timestamp_ms,
     step_statuses |-> statuses,
     uncertainty_events |-> uncertainties,
     model_inference_count |-> lg.model_inference_count,
     heuristic_fallback_count |-> lg.heuristic_fallback_count,
     inference_time_samples |-> lg.inference_latency_samples,
     inference_time_sum_ms |-> lg.inference_latency_sum_ms,
     fallback_events |-> lg.fallback_events,
     notes |-> <<ev.duration_ms, ev.reason>>]

\* A handle_session_ended that writes nothing.
LoggerHandleSessionEndedNever(lg, recs, ev, statuses, uncertainties) == recs

\* SessionLogger.handle_session_ended: the log file after the call.
LoggerHandleSessionEnded(lg, recs, ev, statuses, uncertainties) ==
    IF lg.session_id # ev.session_id \/ lg.session_id = 0 THEN recs
    ELSE Append(recs, BuildRecord(lg, ev, statuses, uncertainties))

\* What the application emits while a handler runs: session events of the
\* gate, calls of the interpreter (which emit its events), LED publishes and
\* log appends, each with the session it belongs to.
TraceEntry(kind, sid) == [kind |-> kind, session_id |-> sid]

\* The trace of one interpreter call that took the machine from m0 to m1.
InterpreterTrace(m0, m1, sid) ==
    <<TraceEntry("interpreter_event", sid)>> \o
    [i \in 1..(Len(m1.posted) - Len(m0.posted)) |->
        TraceEntry("led_publish", sid)]

\* The application state the capture handlers transform.
Pipeline ==
    [g |-> Gate, m |-> Entering, logger |-> logger, records |-> records,
     trace |-> <<>>]

\* CaptureApp._handle_session_event, for the events one gate call emitted;
\* the LED transport works.
RECURSIVE CaptureHandleSessionEvents(_, _)
CaptureHandleSessionEvents(p, events) ==
    IF events = <<>> THEN p
    ELSE LET ev == Head(events)
             sid == ev.session_id
             announced == Append(p.trace, TraceEntry(ev.event_type, sid))
             p1 ==
               IF ev.event_type = "session_started"
               THEN LET m1 == InterpStartSession(p.m, sid, ev.timestamp_ms,
                                                 0, TRUE)
                    IN [p EXCEPT
                          !.m = [ReporterFeed(m1, sid, Len(p.m.emitted) + 1)
                                   EXCEPT !.reporter =
                                               ReporterStartSession(@, sid)],
                          !.logger = LoggerState(sid, ev.timestamp_ms),
                          !.trace = announced \o InterpreterTrace(p.m, m1, sid)]
               ELSE LET recs == LoggerHandleSessionEnded(
                                    p.logger, p.records, ev,
                                    p.m.step_statuses, p.m.uncertainty_events)
                        m1 == InterpEndSession(p.m, ev.timestamp_ms, 0)
                    IN [p EXCEPT
                          !.m = [ReporterFeed(m1, sid, Len(p.m.emitted) + 1)
                                   EXCEPT !.reporter = ReporterEndSession(@)],
                          !.logger = IF @.session_id = sid THEN NoLog ELSE @,
                          !.records = recs,
                          !.trace =
                              announced
                              \o [i \in 1..(Len(recs) - Len(p.records)) |->
                                     TraceEntry("log_append", sid)]
                              \o InterpreterTrace(p.m, m1, sid)]
         IN CaptureHandleSessionEvents(p1, Tail(events))

\* CaptureApp._process_packet (without --log-steps): the gate, then, in a
\* session, the logger and the interpreter on the frame's signals.
CaptureProcessPacket(p, packet, signals, from_model, latency, sid) ==
    LET g == GateProcessFrame(p.g, packet, sid)
        p1 == CaptureHandleSessionEvents([p EXCEPT !.g = g], g.events)
        m2 == InterpProcessSignals(p1.m, signals, packet.timestamp_ms, 0)
    IN IF InterpretsFrame(p.g, g)
       THEN [p1 EXCEPT
               !.logger = RecordStepSignals(@, g.current_session_id, signals,
                                            from_model, latency),
               !.m = ReporterFeed(m2, g.current_session_id,
                                  Len(@.emitted) + 1),
               !.trace = @ \o InterpreterTrace(p1.m, m2,
                                               g.current_session_id)]
       ELSE p1

\* _prime_demo_session: the warmup packets go to the gate alone.
RECURSIVE CapturePrimeSession(_, _, _)
CapturePrimeSession(p, index, sid) ==
    IF index >= start_window_frames THEN p
    ELSE LET g == GateProcessFrame([p.g EXCEPT !.events = <<>>],
                                   WarmupPacket(index), sid)
         IN CapturePrimeSession(
                CaptureHandleSessionEvents([p EXCEPT !.g = g], g.events),
                index + 1, sid)

ApplyCapture(p) ==
    /\ ApplyGate(p.g)
    /\ Apply(p.m)
    /\ logger' = p.logger
    /\ records' = p.records
    /\ trace' = p.trace
    /\ sessions_started' = IF \E i \in DOMAIN p.trace :
                                  p.trace[i].kind = "session_started"
                           THEN sessions_started + 1
                           ELSE sessions_started

\* A packet of the camera, or of a stream that stands for it, as the gate
\* reads it: it meets the start conditions or lacks a hand.
LivePacket(ts, gate_ok) ==
    [timestamp_ms |-> ts,
     hand_count |-> IF gate_ok THEN min_hands ELSE min_hands - 1,
     has_hands_in_roi |-> TRUE,
     hands_in_roi |-> IF gate_ok THEN min_hands ELSE min_hands - 1,
     mean_velocity |-> motion_threshold,
     relative_motion |-> relative_motion_threshold,
     annotation |-> NoAnnotation]

\* _mock_frame_stream: frame_id 5..24 shows two moving hands (0.75 / 0.45),
\* the others one resting hand (0.2 / 0.1); one tick for the 100 ms between
\* two frames.
MockPacket(fid) ==
    LET in_roi_phase == MockPhaseStart <= fid /\ fid < MockPhaseEnd
    IN [timestamp_ms |-> fid,
        hand_count |-> IF in_roi_phase THEN 2 ELSE 1,
        has_hands_in_roi |-> TRUE,
        hands_in_roi |-> IF in_roi_phase THEN 2 ELSE 1,
        mean_velocity |-> IF in_roi_phase THEN 7 ELSE 2,
        relative_motion |-> IF in_roi_phase THEN 4 ELSE 1,
        annotation |-> NoAnnotation]

\* DetectorRunner.evaluate on a camera frame: one signal per step, with the
\* frame's timestamp, confident for the steps the model recognises.
DetectorSignals(ts, recognised) ==
    [i \in 1..Len(StepOrder) |->
        [step_id |-> StepOrder[i], orientation |-> "NONE",
         confidence |-> IF StepOrder[i] \in recognised THEN MaxConf ELSE 0,
         is_confident |-> StepOrder[i] \in recognised,
         timestamp_ms |-> ts]]

\* The frames of scenario S1, one tick for 50 ms: gate-passing packets at
\* 0, 100, 200, a confident STEP_2 signal at 300, 450, 600, no signals at
\* 1200, 1400, 1600.
ScriptTs == <<0, 2, 4, 6, 9, 12, 24, 28, 32>>
ScriptSteps == <<{}, {}, {}, {2}, {2}, {2}, {}, {}, {}>>

\* The packets the frame source can yield next.
FramePackets ==
    CASE frame_source = "live" ->
           {LivePacket(ts, ok) :
               ts \in (now + 1)..MinOf(now + MaxGateGap, MaxCaptureTs),
               ok \in BOOLEAN}
      [] frame_source = "mock" ->
           {MockPacket(fid) : fid \in {frame_id} \cap 0..(MaxMockFrames - 1)}
      [] frame_source = "script" ->
           {LivePacket(ScriptTs[fid + 1], ok) :
               fid \in {frame_id} \cap 0..(Len(ScriptTs) - 1),
               ok \in IF frame_id < 3 THEN {TRUE} ELSE BOOLEAN}
      [] OTHER ->
           {DemoPacket(asset, fid) :
               fid \in {frame_id} \cap 0..(asset.total_frames - 1)}

\* The signals _process_packet gets for a packet in a session: of the
\* DemoSignalSynthesizer (syn), of the detectors on the sample inference
\* (dropout and mislabel rate 0: the annotated step, with a confidence above
\* confidence_min), or of the detectors on the frame.
CaptureSignals(packet, syn) ==
    CASE frame_source = "annotation" -> {syn.signals}
      [] frame_source = "sample" -> {HintedSignals(packet)}
      [] frame_source = "mock" -> {DetectorSignals(packet.timestamp_ms, {})}
      [] frame_source = "script" ->
           {DetectorSignals(packet.timestamp_ms, ScriptSteps[frame_id + 1])}
      [] OTHER ->
           {DetectorSignals(packet.timestamp_ms, c) : c \in SUBSET Steps}

\* time.perf_counter() around step_runner.evaluate: any duration; the
\* synthesizer path measures none.
Latencies ==
    IF frame_source = "annotation" THEN {NoLatency} ELSE 1..MaxLatency

\* CaptureApp.run up to the frame loop; _run_demo_asset primes the session.
CaptureStart ==
    /\ phase = "start"
    /\ \E p \in {IF frame_source \in {"annotation", "sample"}
                 THEN CapturePrimeSession(Pipeline, 0, sessions_started + 1)
                 ELSE Pipeline} :
         ApplyCapture(p)
    /\ phase' = "stream"
    /\ UNCHANGED <<cliVars, replayVars, now, cfgVars, last_call, cl_call, gateCfgVars,
                   gateHistVars, asset, frame_id, elapsed_ms,
                   verify_errors, frame_source, replays>>

\* One iteration of the frame loop: CaptureApp._process_packet
CaptureFrame ==
    /\ phase = "stream"
    /\ \E packet \in FramePackets : \E latency \in Latencies :
       \E g \in {GateProcessFrame(Gate, packet, sessions_started + 1)} :
       \E syn \in {IF frame_source = "annotation" /\ g.session_active
                   THEN SynthGenerate(elapsed_ms, packet,
                                      asset.frame_interval_ms)
                   ELSE [signals |-> <<>>, elapsed |-> elapsed_ms]} :
       \E signals \in CaptureSignals(packet, syn) :
       \E p \in {CaptureProcessPacket(Pipeline, packet, signals,
                                      frame_source # "annotation", latency,
                                      sessions_started + 1)} :
         /\ ApplyCapture(p)
         /\ elapsed_ms' = syn.elapsed
         /\ now' = packet.timestamp_ms
         /\ gate_call' = [op |-> "process_frame", ts |-> packet.timestamp_ms,
                          gate_ok |-> MeetsStartConditions(packet),
                          events |-> g.events,
                          last_event |-> LastEmitted(g.events)]
         /\ last_call' = IF InterpretsFrame(Gate, g)
                         THEN Call("process_signals", packet.timestamp_ms,
                                   signals)
                         ELSE Call("not_called", NoTs, <<>>)
    /\ frame_id' = frame_id + 1
    /\ UNCHANGED <<cliVars, replayVars, cfgVars, cl_call, gateCfgVars, ok_run,
                   recent_ok_ts, asset, phase, verify_errors, frame_source,
                   replays>>

\* The frame loop terminates: the source is exhausted, the frame limit is
\* reached or the user interrupts.  _run_demo_asset then calls
\* session_manager.reset() and status_reporter.force_render(); run (mock)
\* and _run_live_capture return.
CaptureStop ==
    /\ phase = "stream"
    /\ frame_source \in {"annotation", "sample"}
          => frame_id = asset.total_frames
    /\ \E g \in {IF frame_source \in {"annotation", "sample"}
                 THEN GateReset(Gate)
                 ELSE Gate} :
       \E p0 \in {CaptureHandleSessionEvents([Pipeline EXCEPT !.g = g],
                                             g.events)} :
       \E p \in {IF frame_source \in {"annotation", "sample"}
                 THEN [p0 EXCEPT !.m.reporter = ReporterForceRender(@)]
                 ELSE p0} :
         /\ ApplyCapture(p)
         /\ gate_call' = [op |-> "stop", ts |-> now, gate_ok |-> FALSE,
                          events |-> g.events,
                          last_event |-> LastEmitted(g.events)]
    /\ phase' = "done"
    /\ replays' = replays + 1
    /\ UNCHANGED <<cliVars, replayVars, now, cfgVars, last_call, cl_call, gateCfgVars, ok_run,
                   recent_ok_ts, asset, frame_id, elapsed_ms, verify_errors,
                   frame_source>>

\* SessionManager.__init__
NewGate ==
    [start_window |-> <<>>, session_active |-> FALSE,
     current_session_id |-> 0, session_start_ts |-> NoTs,
     last_active_ts |-> NoTs, events |-> <<>>]

\* InterpreterStateMachine.__init__ with a new Esp8266Client, after the
\* reset CaptureApp.__init__ sends on startup.
NewMachine ==
    [session_id |-> 0,
     step_statuses |-> [s \in Steps |-> NewStepStatus],
     last_confident_ts |-> [s \in Steps |-> NoTs],
     last_published |-> [s \in Steps |-> <<"NOT_STARTED", 0, "NONE">>],
     uncertainty_events |-> <<>>,
     active_step_id |-> NoStep,
     led_states |-> [s \in Steps |-> NoLed],
     cl_session_id |-> 0,
     cl_disabled |-> ~led_enabled,
     cl_last_error |-> FALSE,
     cl_last_states |-> [s \in Steps |-> NoLed],
     posted |-> <<>>,
     wire_prev |-> [s \in Steps |-> NoLed],
     strip |-> [s \in Steps |-> "IDLE"],
     led_fault |-> TRUE,
     emitted |-> <<>>,
     seen_orientation |-> [s \in Steps |-> "NONE"],
     confident_span |-> [s \in Steps |-> <<NoTs, NoTs>>],
     reporter |-> [NewReporter EXCEPT !.clock = reporter.clock]]

\* The same asset is replayed once more under the same config: a new
\* CaptureApp (gate, interpreter, LED client, logger, synthesizer) writing
\* to the same log directory.
CaptureReplayAgain ==
    /\ phase = "done"
    /\ frame_source \in {"annotation", "sample"}
    /\ replays < MaxReplays
    /\ \E p \in {[g |-> NewGate, m |-> NewMachine, logger |-> NoLog,
                  records |-> records, trace |-> <<>>]} :
         ApplyCapture(p)
    /\ phase' = "start"
    /\ frame_id' = 0
    /\ elapsed_ms' = <<>>
    /\ now' = 0
    /\ UNCHANGED <<cliVars, replayVars, cfgVars, last_call, cl_call, gateCfgVars, gateHistVars,
                   asset, verify_errors, frame_source, replays>>

\* ------------------------------------------------------------ initial state
\* Esp8266Client.__init__
InitClient ==
    /\ cl_session_id = 0
    /\ cl_disabled = ~led_enabled
    /\ cl_last_error = FALSE
    /\ cl_last_states = [s \in Steps |-> NoLed]

\* InterpreterStateMachine.__init__; the dicts are empty until the first
\* start_session, an absent entry is the default value here.
InitInterpreter ==
    /\ session_id = 0
    /\ step_statuses = [s \in Steps |-> NewStepStatus]
    /\ last_confident_ts = [s \in Steps |-> NoTs]
    /\ last_published = [s \in Steps |-> <<"NOT_STARTED", 0, "NONE">>]
    /\ uncertainty_events = <<>>
    /\ active_step_id = NoStep
    /\ led_states = [s \in Steps |-> NoLed]

InitHistory ==
    /\ posted = <<>>
    /\ wire_prev = [s \in Steps |-> NoLed]
    /\ last_call = Call("init", NoTs, <<>>)
    /\ strip = [s \in Steps |-> "IDLE"]
    /\ led_fault = TRUE
    /\ emitted = <<>>
    /\ seen_orientation = [s \in Steps |-> "NONE"]
    /\ confident_span = [s \in Steps |-> <<NoTs, NoTs>>]
    /\ reporter = NewReporter
    /\ last_step_event = [s \in Steps |-> <<"NOT_STARTED", 0, "NONE">>]
    /\ cl_call = ClientCall("init", NoStep, NoLed, FALSE)

\* SessionManager.__init__
InitGate ==
    /\ start_window = <<>>
    /\ session_active = FALSE
    /\ current_session_id = 0
    /\ session_start_ts = NoTs
    /\ last_active_ts = NoTs
    /\ gate_call = [op |-> "init", ts |-> 0, gate_ok |-> FALSE,
                    events |-> <<>>,
                    last_event |-> [event_type |-> "", session_id |-> 0]]
    /\ ok_run = 0
    /\ recent_ok_ts = NoTs

\* No CaptureApp is running; SessionLogger.__init__
InitNoCapture ==
    /\ frame_source = "none"
    /\ logger = NoLog
    /\ records = <<>>
    /\ trace = <<>>
    /\ replays = 0

\* The command line of deltawash-demo: the files --config and --manifest
\* name, whether the manifest lists --asset, whether --verify is given.
Launch(config, manifest, asset_listed, verify) ==
    [config |-> config, manifest |-> manifest,
     asset_listed |-> asset_listed, verify |-> verify]

\* deltawash-demo, if it runs, was started with --verify on a valid
\* configuration, a valid manifest and an asset it lists, and has not
\* exited.
InitNoExit ==
    /\ launch = Launch("valid", "valid", TRUE, TRUE)
    /\ exit_status = NoExit

\* No asset is being streamed.
InitNoReplay ==
    /\ fps = 0
    /\ packets = <<>>
    /\ fed = <<>>

\* No demo asset is being replayed.
InitNoAsset ==
    /\ asset = NoAsset
    /\ frame_id = 0
    /\ elapsed_ms = <<>>
    /\ phase = "idle"
    /\ verify_errors = {}
    /\ InitNoCapture
    /\ InitNoReplay
    /\ InitNoExit

\* SessionConfig of the tests' configuration, scaled down.
InitGateConfig ==
    /\ start_window_frames = 1
    /\ stop_timeout_ms = 1
    /\ require_motion = TRUE
    /\ min_hands = 2

\* The interpreter constructed without an LED client (led_client=None),
\* with one duration for all steps (as the tests' configs have).
Init ==
    /\ now = 0
    /\ sessions_started = 0
    /\ duration_ms \in {[s \in Steps |-> d] : d \in 1..MaxDuration}
    /\ has_led_client = FALSE
    /\ led_enabled = FALSE
    /\ has_callback = FALSE
    /\ has_reporter = FALSE
    /\ InitClient
    /\ InitInterpreter
    /\ InitHistory
    /\ InitGateConfig
    /\ InitGate
    /\ InitNoAsset

Next == StartSession \/ ProcessSignals \/ EndSession

Spec == Init /\ [][Next]_vars

\* The session gate alone, over the configurations the loader accepts
\* (start_window_frames >= 1, stop_timeout_ms >= 1).
InitSessionManager ==
    /\ now = 0
    /\ sessions_started = 0
    /\ duration_ms = [s \in Steps |-> 1]
    /\ has_led_client = FALSE
    /\ led_enabled = FALSE
    /\ has_callback = FALSE
    /\ has_reporter = FALSE
    /\ InitClient
    /\ InitInterpreter
    /\ InitHistory
    /\ start_window_frames \in 1..MaxWindow
    /\ stop_timeout_ms \in 1..MaxTimeout
    /\ require_motion \in BOOLEAN
    /\ min_hands = 2
    /\ InitGate
    /\ InitNoAsset

NextGate == ProcessFrame \/ Reset

SpecGate == InitSessionManager /\ [][NextGate]_vars

\* The LED publisher alone, with the ESP8266 enabled in the configuration
\* or not, called in any order.
InitEsp8266Client ==
    /\ now = 0
    /\ sessions_started = 0
    /\ duration_ms = [s \in Steps |-> 1]
    /\ has_led_client = TRUE
    /\ led_enabled \in BOOLEAN
    /\ has_callback = FALSE
    /\ has_reporter = FALSE
    /\ InitClient
    /\ InitInterpreter
    /\ InitHistory
    /\ InitGateConfig
    /\ InitGate
    /\ InitNoAsset

\* The status reporter alone, called in any order while its clock runs.
NextReporter ==
    Tick \/ RpStartSession \/ RpEndSession \/ RpHandleEvent \/ RpForceRender

SpecReporter == InitEsp8266Client /\ [][NextReporter]_vars

NextLed == LedStartSession \/ LedPublish \/ LedEndSession

SpecLed == InitEsp8266Client /\ [][NextLed]_vars

\* The interpreter constructed with an Esp8266Client that the configuration
\* enables, as CaptureApp builds it; publishes and resets may fail.
InitWithLeds ==
    /\ now = 0
    /\ sessions_started = 0
    /\ duration_ms = [s \in Steps |-> 1]
    /\ has_led_client = TRUE
    /\ led_enabled = TRUE
    /\ has_callback = TRUE
    /\ has_reporter = FALSE
    /\ InitClient
    /\ InitInterpreter
    /\ InitHistory
    /\ InitGateConfig
    /\ InitGate
    /\ InitNoAsset

NextLeds == StartSession \/ LedProcessSignals \/ EndSession

SpecLeds == InitWithLeds /\ [][NextLeds]_vars

\* The interpreter without an LED client, fed by the detectors.
NextDetectors == StartSession \/ DetectorProcessSignals \/ EndSession

SpecDetectors == Init /\ [][NextDetectors]_vars

\* DemoApp (cli/demo.py) replaying an asset of the manifest with --verify,
\* without LED client; the step thresholds are those of the scenarios (15 and
\* 25 ticks) or small ones.
InitDemoWith(hands) ==
    /\ now = 0
    /\ sessions_started = 0
    /\ duration_ms \in {[s \in Steps |-> d] : d \in 1..MaxDuration \cup {15, 25}}
    /\ has_led_client = FALSE
    /\ led_enabled = FALSE
    /\ has_callback = TRUE
    /\ has_reporter = TRUE
    /\ InitClient
    /\ InitInterpreter
    /\ InitHistory
    /\ start_window_frames \in 1..MaxWindow
    /\ stop_timeout_ms = 1
    /\ require_motion = TRUE
    /\ min_hands \in hands
    /\ InitGate
    /\ asset \in {ScenarioAsset} \cup DemoAssets(MaxAnnotations)
    /\ frame_id = 0
    /\ elapsed_ms = <<>>
    /\ phase = "start"
    /\ verify_errors = {}
    /\ InitNoCapture
    /\ InitNoReplay
    /\ InitNoExit

\* The tests' session.min_hands.
InitDemo == InitDemoWith({2})

NextDemo == DemoPrime \/ DemoFrame \/ DemoFinish

SpecDemo == InitDemo /\ [][NextDemo]_vars

\* The same command on any session.min_hands the loader accepts (an
\* integer >= 1).
InitDemoHands == InitDemoWith(1..MaxMinHands)

SpecDemoHands == InitDemoHands /\ [][NextDemo]_vars

\* deltawash-demo from its command line on: the configuration file is
\* valid or not, the manifest file is valid, missing, not JSON, JSON that
\* the loader rejects, or names a step or orientation that does not exist;
\* --asset is listed in the manifest or not; --verify is given or not.
InitDemoCli ==
    /\ now = 0
    /\ sessions_started = 0
    /\ duration_ms \in {[s \in Steps |-> d] : d \in 1..MaxDuration}
    /\ has_led_client = FALSE
    /\ led_enabled = FALSE
    /\ has_callback = TRUE
    /\ has_reporter = TRUE
    /\ InitClient
    /\ InitInterpreter
    /\ InitHistory
    /\ start_window_frames \in 1..MaxWindow
    /\ stop_timeout_ms = 1
    /\ require_motion = TRUE
    /\ min_hands = 2
    /\ InitGate
    /\ launch \in {Launch(c, f, a, v) :
                      c \in {"valid", "invalid"},
                      f \in {"valid", "missing", "not_json", "rejected",
                             "unknown_enum_value"},
                      a \in BOOLEAN, v \in BOOLEAN}
    /\ asset \in IF /\ launch.config = "valid"
                    /\ launch.manifest = "valid"
                    /\ launch.asset_listed
                 THEN DemoAssets(1) ELSE {NoAsset}
    /\ frame_id = 0
    /\ elapsed_ms = <<>>
    /\ phase = "main"
    /\ verify_errors = {}
    /\ exit_status = NoExit
    /\ InitNoCapture
    /\ InitNoReplay

SpecDemoCli ==
    InitDemoCli /\ [][DemoMain \/ DemoPrime \/ DemoFrame \/ DemoFinish]_vars

\* CaptureApp (cli/capture.py) with the ESP8266 enabled and a working LED
\* transport, on a live camera, on the mock stream (--mock-session), on the
\* frames of scenario S1, or replaying a demo asset (one with at most one
\* annotation window) with the annotation synthesizer or with
\* --sample-inference.
InitCapture ==
    /\ now = 0
    /\ sessions_started = 0
    /\ has_led_client = TRUE
    /\ led_enabled = TRUE
    /\ has_callback = TRUE
    /\ has_reporter = TRUE
    /\ InitClient
    /\ InitInterpreter
    /\ InitHistory
    /\ InitGate
    /\ require_motion = TRUE
    /\ min_hands = 2
    /\ frame_source \in {"live", "mock", "script", "annotation", "sample"}
    /\ IF frame_source = "script"
       THEN /\ duration_ms = [s \in Steps |-> 6]
            /\ start_window_frames = 3
            /\ stop_timeout_ms = 10
       ELSE /\ duration_ms \in {[s \in Steps |-> d] : d \in 1..MaxDuration}
            /\ start_window_frames \in 1..MaxWindow
            /\ stop_timeout_ms \in 1..MaxTimeout
    /\ asset \in IF frame_source \in {"annotation", "sample"}
                 THEN DemoAssets(1) ELSE {NoAsset}
    /\ frame_id = 0
    /\ elapsed_ms = <<>>
    /\ phase = "start"
    /\ verify_errors = {}
    /\ logger = NoLog
    /\ records = <<>>
    /\ trace = <<>>
    /\ replays = 0
    /\ InitNoReplay
    /\ InitNoExit

NextCapture == CaptureStart \/ CaptureFrame \/ CaptureStop \/ CaptureReplayAgain

SpecCapture == InitCapture /\ [][NextCapture]_vars

\* DemoReplay.stream_packets alone, on an asset of a loaded manifest.
InitReplay ==
    /\ now = 0
    /\ sessions_started = 0
    /\ duration_ms = [s \in Steps |-> 1]
    /\ has_led_client = FALSE
    /\ led_enabled = FALSE
    /\ has_callback = FALSE
    /\ has_reporter = FALSE
    /\ InitClient
    /\ InitInterpreter
    /\ InitHistory
    /\ InitGateConfig
    /\ InitGate
    /\ InitNoCapture
    /\ fps \in ReplayFps
    /\ asset \in {DemoAsset(an, n, FrameIntervalMs(fps)) :
                     an \in UNION {[1..k -> ReplayAnnotations] :
                                     k \in 0..MaxReplayAnnotations},
                     n \in 1..MaxReplayFrames}
    /\ frame_id = 0
    /\ elapsed_ms = <<>>
    /\ phase = "replay"
    /\ verify_errors = {}
    /\ packets = <<>>
    /\ fed = <<>>
    /\ InitNoExit

SpecReplay == InitReplay /\ [][ReplayStream]_vars

\* ------------------------------------------------------------------ claims
\* A frame was processed inside a session by the last handler.
FrameProcessed == last_call.op = "process_signals"

\* C1: after every process_signals call in a session every step has
\* accumulated_ms >= 0, a COMPLETED step has accumulated_ms >= its
\* duration_ms, and completed_ts is set exactly for the COMPLETED steps.
C1_StatusInvariant ==
    FrameProcessed =>
        \A s \in Steps :
            /\ step_statuses[s].accumulated_ms >= 0
            /\ step_statuses[s].state = "COMPLETED"
                   => step_statuses[s].accumulated_ms >= duration_ms[s]
            /\ step_statuses[s].completed_ts # NoTs
                   <=> step_statuses[s].state = "COMPLETED"

\* A frame left one step COMPLETED beyond its threshold and the other one
\* started but not completed.
C1_Witness ==
    /\ FrameProcessed
    /\ step_statuses[2].state = "COMPLETED"
    /\ step_statuses[2].accumulated_ms > duration_ms[2]
    /\ step_statuses[3].state = "IN_PROGRESS"
    /\ step_statuses[3].completed_ts = NoTs

\* C2: once a step is COMPLETED no later process_signals call of the session
\* changes its state, accumulated_ms, completed_ts or orientation.
C2_CompletedFrozen ==
    [][\A s \in Steps :
          (step_statuses[s].state = "COMPLETED"
           /\ last_call'.op \in {"process_signals", "ignored"})
          => /\ step_statuses'[s].state = "COMPLETED"
             /\ step_statuses'[s].accumulated_ms = step_statuses[s].accumulated_ms
             /\ step_statuses'[s].completed_ts = step_statuses[s].completed_ts
             /\ step_statuses'[s].orientation = step_statuses[s].orientation]_vars

\* A frame carried a confident signal, with a later timestamp, for a step
\* that was COMPLETED before it.
C2_Witness ==
    /\ FrameProcessed
    /\ step_statuses[3].state = "COMPLETED"
    /\ last_call.confident[3] > 0
    /\ last_call.sig_ts > step_statuses[3].completed_ts

\* C3: for a step that is not COMPLETED, a frame with a confident signal adds
\* max(0, its timestamp - the timestamp of the step's confident signal of the
\* immediately preceding frame) when that frame carried one, and 0 otherwise;
\* a frame without a confident signal adds nothing.
C3_DwellOnlyConsecutive ==
    [][(last_call'.op = "process_signals") =>
        \A s \in Steps :
            step_statuses[s].state # "COMPLETED" =>
                step_statuses'[s].accumulated_ms =
                    step_statuses[s].accumulated_ms +
                    (IF last_call'.confident[s] > 0
                        /\ FrameProcessed /\ last_call.confident[s] > 0
                     THEN Max0(last_call'.sig_ts - last_call.sig_ts)
                     ELSE 0)]_vars

\* A step seen at timestamp 0 lost its signal at 0 and got it back at 2:
\* nothing was accumulated for the two ticks in between.
C3_Witness ==
    /\ FrameProcessed
    /\ last_call.confident[3] > 0
    /\ last_call.sig_ts = 2
    /\ step_statuses[3].state = "IN_PROGRESS"
    /\ step_statuses[3].uncertainty_count = 1
    /\ step_statuses[3].accumulated_ms = 0
    /\ uncertainty_events = <<[timestamp_ms |-> 0, reason |-> "LOW_CONFIDENCE",
                               details |-> 3]>>

\* C4: after every process_signals call in a session active_step_id is null
\* when the frame carried no confident signal, and otherwise the step of a
\* confident signal of maximum confidence.
C4_ActiveIsArgmax ==
    FrameProcessed =>
        IF \A s \in Steps : last_call.confident[s] = 0
        THEN active_step_id = NoStep
        ELSE /\ active_step_id \in Steps
             /\ last_call.confident[active_step_id] > 0
             /\ \A s \in Steps :
                   last_call.confident[s] <= last_call.confident[active_step_id]

\* Both steps were confident, the second with the higher confidence: it is
\* the active step although it had been COMPLETED by an earlier frame.
C4_Witness ==
    /\ FrameProcessed
    /\ last_call.confident[2] = 1
    /\ last_call.confident[3] = 2
    /\ active_step_id = 3
    /\ step_statuses[3].state = "COMPLETED"
    /\ step_statuses[3].completed_ts < last_call.sig_ts

\* C5: after every process_signals call, last_confident_ts of a step is set
\* iff the frame carried a confident signal for it and the step is not
\* COMPLETED; so IN_PROGRESS has it set and UNCERTAIN has it null.
C5_LastConfidentTs ==
    FrameProcessed =>
        \A s \in Steps :
            /\ last_confident_ts[s] # NoTs
                   <=> (last_call.confident[s] > 0
                        /\ step_statuses[s].state # "COMPLETED")
            /\ step_statuses[s].state = "IN_PROGRESS" => last_confident_ts[s] # NoTs
            /\ step_statuses[s].state = "UNCERTAIN" => last_confident_ts[s] = NoTs

\* One frame completed a step (its timestamp cleared), kept the other step
\* confident (timestamp set).
C5_Witness ==
    /\ FrameProcessed
    /\ last_call.confident[2] > 0
    /\ last_call.confident[3] > 0
    /\ step_statuses[2].state = "COMPLETED"
    /\ step_statuses[2].completed_ts = last_call.sig_ts
    /\ last_confident_ts[2] = NoTs
    /\ step_statuses[3].state = "IN_PROGRESS"
    /\ last_confident_ts[3] = last_call.sig_ts

\* C6: a step becomes COMPLETED in the first confident frame at which its
\* accumulated_ms is >= duration_ms (equality suffices), with completed_ts
\* the timestamp of that frame's signal.
C6_CompletesAtThreshold ==
    [][(last_call'.op = "process_signals") =>
        \A s \in Steps :
            step_statuses[s].state # "COMPLETED" =>
                /\ step_statuses'[s].state = "COMPLETED"
                       <=> (last_call'.confident[s] > 0
                            /\ step_statuses'[s].accumulated_ms >= duration_ms[s])
                /\ step_statuses'[s].state = "COMPLETED"
                       => step_statuses'[s].completed_ts = last_call'.sig_ts]_vars

\* A step completed with exactly duration_ms accumulated, stamped with the
\* signal's timestamp, which trails the frame's.
C6_Witness ==
    /\ FrameProcessed
    /\ last_call.confident[3] > 0
    /\ step_statuses[3].state = "COMPLETED"
    /\ step_statuses[3].accumulated_ms = duration_ms[3]
    /\ duration_ms[3] = 2
    /\ step_statuses[3].completed_ts = last_call.sig_ts
    /\ last_call.sig_ts < now

\* The events the last SessionManager method emitted, by type.
GateEmitted(call, type) ==
    {i \in 1..Len(call.events) : call.events[i].event_type = type}

\* C7: from Idle, process_frame emits SessionStarted exactly on the frame
\* that makes the last start_window_frames frames since the window was
\* cleared all gate_ok, with the frame's timestamp as event timestamp; it
\* emits none when one of those frames failed or fewer were seen.
C7_StartsOnFullOkWindow ==
    [][(gate_call'.op = "process_frame" /\ ~session_active)
       => /\ GateEmitted(gate_call', "session_started") # {}
                <=> ok_run' >= start_window_frames
          /\ \A i \in GateEmitted(gate_call', "session_started") :
                gate_call'.events[i].timestamp_ms = gate_call'.ts
          /\ Len(gate_call'.events) <= 1]_vars

\* A second session was started, by the second of two gate_ok frames, with
\* a two-frame window, after a frame that failed the gate.
C7_Witness ==
    /\ gate_call.op = "process_frame"
    /\ GateEmitted(gate_call, "session_started") # {}
    /\ start_window_frames = 2
    /\ sessions_started = 2
    /\ session_start_ts = gate_call.ts
    /\ gate_call.ts > 0

\* C8 as stated: an Active session ends on a frame exactly when the frame's
\* timestamp is stop_timeout_ms or more after the most recent gate_ok frame
\* before it (or the session's start), whether or not the frame itself
\* passes the gate.
C8_EndsOnAnyLateFrame ==
    [][(gate_call'.op = "process_frame" /\ session_active)
       => (GateEmitted(gate_call', "session_ended") # {}
             <=> gate_call'.ts - recent_ok_ts >= stop_timeout_ms)]_vars

\* C8, amended: an Active session ends on a frame exactly when the frame
\* fails the gate and its timestamp is stop_timeout_ms or more after the
\* most recent gate_ok frame of the session (or its start); a late frame
\* that passes the gate keeps the session open. last_active_ts is that
\* timestamp while the session is open.
C8_EndsOnLateFailingFrame ==
    [][(gate_call'.op = "process_frame" /\ session_active)
       => /\ last_active_ts = recent_ok_ts
          /\ GateEmitted(gate_call', "session_ended") # {}
                <=> (~gate_call'.gate_ok
                     /\ gate_call'.ts - recent_ok_ts >= stop_timeout_ms)
          /\ \A i \in GateEmitted(gate_call', "session_ended") :
                /\ gate_call'.events[i].timestamp_ms = gate_call'.ts
                /\ gate_call'.events[i].reason = "timeout"]_vars

\* A session was ended by a failing frame exactly stop_timeout_ms after its
\* last gate_ok frame, which came after the session's start; an earlier
\* failing frame had not ended it.
C8_Witness ==
    /\ gate_call.op = "process_frame"
    /\ GateEmitted(gate_call, "session_ended") # {}
    /\ ~gate_call.gate_ok
    /\ stop_timeout_ms = 2
    /\ gate_call.ts - recent_ok_ts = stop_timeout_ms
    /\ gate_call.events[1].duration_ms > stop_timeout_ms

\* The states of the payloads posted for a step in the current LED session,
\* up to and including the last handler's, oldest first; only the last one
\* sent before the last handler is kept of the earlier ones.
PayloadStates(step) ==
    LET idx(i) == posted[i].step = step
        sent == SelectSeq([i \in 1..Len(posted) |-> i], idx)
    IN <<wire_prev[step]>> \o [k \in 1..Len(sent) |-> posted[sent[k]].state]

\* C9: within one LED session a publish sends at most one POST, none at all
\* when the step already has the published state as its last successfully
\* posted one, and the payloads posted for one step never carry the same
\* state twice in a row.
C9_OnePostPerTransition ==
    [][cl_call'.op = "publish"
       => /\ Len(posted') <= 1
          /\ cl_last_states[cl_call'.step] = cl_call'.state
                => posted' = <<>> /\ cl_last_states' = cl_last_states
          /\ \A s \in Steps : \A k \in 1..(Len(PayloadStates(s)') - 1) :
                PayloadStates(s)'[k] # PayloadStates(s)'[k + 1]]_vars

\* A publish of the state a step already has sent nothing and reported
\* delivery, in a session in which the other step got a payload too.
C9_Witness ==
    /\ cl_call.op = "publish"
    /\ cl_call.delivered
    /\ posted = <<>>
    /\ cl_last_states[cl_call.step] = cl_call.state
    /\ wire_prev[cl_call.step] = cl_call.state
    /\ \E s \in Steps \ {cl_call.step} : cl_last_states[s] # NoLed

\* C10: a publish whose POST fails disables the publisher and returns
\* not-delivered; while disabled every publish sends nothing and returns
\* not-delivered, and only start_session lifts the disabling; with the
\* ESP8266 configured, start_session re-enables the publisher and clears
\* its per-step state.
C10_DisabledUntilNextSession ==
    [][/\ (cl_call'.op = "publish" /\ \E i \in 1..Len(posted') : ~posted'[i].ok)
          => cl_disabled' /\ ~cl_call'.delivered /\ cl_last_error'
       /\ (cl_call'.op = "publish" /\ cl_disabled)
          => posted' = <<>> /\ ~cl_call'.delivered /\ cl_disabled'
       /\ (cl_call'.op = "end_session" /\ cl_disabled) => cl_disabled'
       /\ (cl_call'.op = "start_session" /\ led_enabled)
          => /\ ~cl_disabled'
             /\ ~cl_last_error'
             /\ cl_last_states' = [s \in Steps |-> NoLed]]_vars

\* The start of the second session re-enabled a publisher that a failed
\* POST had disabled in the first, and cleared its per-step state.
C10_Witness ==
    /\ led_enabled
    /\ cl_call.op = "start_session"
    /\ cl_call.was_disabled
    /\ ~cl_disabled
    /\ cl_session_id = 2
    /\ \A s \in Steps : cl_last_states[s] = NoLed

\* The strip shows what the interpreter holds: a LED that is CURRENT is the
\* active step's (so at most one is), a LED that is COMPLETED is that of a
\* COMPLETED step, every other LED is IDLE.
StripMirrorsInterpreter ==
    /\ \A s \in Steps : strip[s] \in LedSignalState
    /\ \A s \in Steps : strip[s] = "CURRENT" => s = active_step_id
    /\ \A s \in Steps : strip[s] = "COMPLETED"
                            => step_statuses[s].state = "COMPLETED"

LosingConfidence ==
    {s \in Steps : step_statuses[s].state = "IN_PROGRESS"
                   /\ last_call'.confident[s] = 0}

\* C18: a frame without a confident signal for an IN_PROGRESS step moves it
\* to UNCERTAIN, adds one to its uncertainty_count, appends exactly one
\* LOW_CONFIDENCE uncertainty event for it and keeps its accumulated_ms; the
\* frame leaves NOT_STARTED and UNCERTAIN steps as they are; a confident
\* signal for an UNCERTAIN step brings it back to IN_PROGRESS with the
\* accumulated_ms it had.
C18_UncertaintyPausesAccumulation ==
    [][(last_call'.op = "process_signals") =>
        /\ \A s \in LosingConfidence :
              /\ step_statuses'[s] =
                    [step_statuses[s] EXCEPT !.state = "UNCERTAIN",
                                             !.uncertainty_count = @ + 1]
              /\ Cardinality({i \in DOMAIN uncertainty_events' :
                                 /\ i > Len(uncertainty_events)
                                 /\ uncertainty_events'[i] =
                                       [timestamp_ms |-> now',
                                        reason |-> "LOW_CONFIDENCE",
                                        details |-> s]}) = 1
        /\ Len(uncertainty_events') =
              Len(uncertainty_events) + Cardinality(LosingConfidence)
        /\ SubSeq(uncertainty_events', 1, Len(uncertainty_events))
              = uncertainty_events
        /\ \A s \in Steps :
              /\ (step_statuses[s].state \in {"NOT_STARTED", "UNCERTAIN"}
                  /\ last_call'.confident[s] = 0)
                 => step_statuses'[s] = step_statuses[s]
              /\ (step_statuses[s].state = "UNCERTAIN"
                  /\ last_call'.confident[s] > 0)
                 => /\ step_statuses'[s].state = "IN_PROGRESS"
                    /\ step_statuses'[s].accumulated_ms
                          = step_statuses[s].accumulated_ms
                    /\ step_statuses'[s].uncertainty_count
                          = step_statuses[s].uncertainty_count]_vars

\* A step that had accumulated one tick lost its signal and got it back:
\* it is IN_PROGRESS again, with that tick and with one uncertainty on
\* record.
C18_Witness ==
    /\ FrameProcessed
    /\ \E s \in Steps :
          /\ last_call.confident[s] > 0
          /\ step_statuses[s].state = "IN_PROGRESS"
          /\ step_statuses[s].accumulated_ms = 1
          /\ step_statuses[s].uncertainty_count = 1
          /\ uncertainty_events = <<[timestamp_ms |-> 1,
                                     reason |-> "LOW_CONFIDENCE",
                                     details |-> s]>>

ReplayDone == phase = "done"

\* The steps COMPLETED in the interpreter's snapshot, and the annotated
\* steps whose summed annotation duration reaches the configured duration_ms.
CompletedSteps == {s \in Steps : step_statuses[s].state = "COMPLETED"}
DueSteps ==
    {s \in AnnotatedSteps(asset.annotations) :
        AnnotationDuration(asset.annotations, s) >= duration_ms[s]}

\* Every completed, annotated step whose last annotation names an
\* orientation has that orientation.
OrientationsAgree ==
    \A s \in CompletedSteps \cap AnnotatedSteps(asset.annotations) :
        LastOrientation(asset.annotations, s) \in
            {"NONE", step_statuses[s].orientation}

\* C13 as stated: verification passes whenever the steps COMPLETED after the
\* replay are exactly the annotated steps whose summed annotation duration
\* is at least duration_ms.
C13_PassWhenSetsEqual ==
    (ReplayDone /\ CompletedSteps = DueSteps) => verify_errors = {}

\* C13, amended: verification passes whenever the steps COMPLETED after the
\* replay are exactly the annotated steps whose summed annotation duration
\* is at least duration_ms and every completed step whose last annotation
\* names an orientation has that orientation.
C13_PassWhenSetsAndOrientationsAgree ==
    (ReplayDone /\ CompletedSteps = DueSteps /\ OrientationsAgree)
        => verify_errors = {}

\* Verification passed after a replay that completed one annotated step,
\* with the orientation of an earlier window while its last window names
\* none, and left the other annotated step short of its threshold.
C13_Witness ==
    /\ ReplayDone
    /\ verify_errors = {}
    /\ CompletedSteps = {3}
    /\ AnnotatedSteps(asset.annotations) = {2, 3}
    /\ step_statuses[3].orientation # "NONE"

\* The annotation windows of the asset do not overlap, and its frames run
\* to the end of every window.
WindowsDisjoint ==
    \A i, j \in DOMAIN asset.annotations :
        i < j => \/ asset.annotations[i].end_ms <= asset.annotations[j].start_ms
                 \/ asset.annotations[j].end_ms <= asset.annotations[i].start_ms
FramesSpanWindows ==
    \A i \in DOMAIN asset.annotations :
        asset.annotations[i].end_ms
            <= asset.total_frames * asset.frame_interval_ms

\* C14: after the replay of an asset whose frames span its non-overlapping
\* annotation windows, a step is COMPLETED exactly when its summed
\* annotation duration is at least its duration_ms, a completed step has
\* the annotated orientation, no unannotated step is COMPLETED, and
\* verification passes; the scenario asset with thresholds of 3000 ms has
\* both steps COMPLETED.
C14_ReplayCompletesDueSteps ==
    (ReplayDone /\ WindowsDisjoint /\ FramesSpanWindows)
        => /\ CompletedSteps = DueSteps
           /\ OrientationsAgree
           /\ verify_errors = {}
           /\ (asset = ScenarioAsset /\ duration_ms[2] = 15)
                 => CompletedSteps = {2, 3}

\* C15 as stated: the scenario asset replayed with thresholds of 5000 ms
\* leaves both steps not COMPLETED and verification fails with two entries.
C15_ShortReplayFailsVerification ==
    (ReplayDone /\ asset = ScenarioAsset /\ duration_ms[2] = 25)
        => /\ CompletedSteps = {}
           /\ Cardinality(verify_errors) = 2

\* C15, amended: the scenario asset replayed with thresholds of 5000 ms
\* leaves both steps not COMPLETED, and verification passes, with no entry:
\* neither step was due.
C15_ShortReplayPassesVerification ==
    (ReplayDone /\ asset = ScenarioAsset /\ duration_ms[2] = 25)
        => /\ CompletedSteps = {}
           /\ verify_errors = {}

\* The scenario asset was replayed with thresholds of 5000 ms: both steps
\* stopped at the 3000 ms of their windows, and verification passed.
C15_Witness ==
    /\ ReplayDone
    /\ asset = ScenarioAsset
    /\ duration_ms[2] = 25
    /\ \A s \in Steps : /\ step_statuses[s].state = "UNCERTAIN"
                        /\ step_statuses[s].accumulated_ms = 15
    /\ verify_errors = {}

\* C19: once the frame loop has terminated (source exhausted, frame limit
\* or keyboard interrupt), in live, mock and replay modes alike, the session
\* that was active has been ended with reason reset: no session is left
\* active in the gate or the interpreter, every LED shows IDLE and every
\* session that was started has its record in the log.
C19_TerminationEndsSession ==
    phase = "done" =>
        /\ ~session_active
        /\ session_id = 0
        /\ \A i \in DOMAIN gate_call.events :
              gate_call.events[i].reason = "reset"
        /\ \A s \in Steps : strip[s] = "IDLE"
        /\ \A sid \in 1..sessions_started :
              \E i \in DOMAIN records : records[i].session_id = sid

\* A session record without the fields that name the session and its time.
ModuloSession(r) == [r EXCEPT !.session_id = 0, !.start_ts = 0, !.end_ts = 0]

\* C12: replays of the same asset under the same config through the capture
\* pipeline, with the annotation synthesizer or with sample inference as the
\* signal source, append session records that are identical in every field
\* except session_id, start_ts and end_ts.
C12_ReplayDeterministic ==
    frame_source \in {"annotation", "sample"} =>
        \A i, j \in DOMAIN records :
            ModuloSession(records[i]) = ModuloSession(records[j])

\* The records the log holds for a session.
RecordsOf(sid) == {i \in DOMAIN records : records[i].session_id = sid}

\* C20: in the capture pipeline every session that has started and ended has
\* exactly one record in the log (a session still open has none); a record
\* is appended after the SessionEnded of its session was emitted; and when
\* anything is emitted for a session (SessionStarted, an interpreter event,
\* an LED publish), the records of all earlier sessions have been appended.
C20_OneRecordPerEndedSession ==
    /\ \A sid \in 1..sessions_started :
          Cardinality(RecordsOf(sid)) =
              IF session_active /\ current_session_id = sid THEN 0 ELSE 1
    /\ \A i \in DOMAIN trace :
          trace[i].kind = "log_append" =>
              \E j \in 1..(i - 1) :
                  trace[j] = TraceEntry("session_ended", trace[i].session_id)
    /\ \A i \in DOMAIN trace : \A sid \in 1..(trace[i].session_id - 1) :
          /\ RecordsOf(sid) # {}
          /\ \A j \in DOMAIN trace :
                trace[j] = TraceEntry("log_append", sid) => j < i

\* The second session of a live capture starts, and the log holds the
\* record of the first.
C20_Witness ==
    /\ frame_source = "live"
    /\ \E i \in DOMAIN trace : trace[i] = TraceEntry("session_started", 2)
    /\ Cardinality(RecordsOf(1)) = 1
    /\ records[1].notes[2] = "timeout"

\* The first n frames of scenario S1 have been processed (one tick for 50
\* ms; duration_ms 6, start_window_frames 3, stop_timeout_ms 10).
ScriptAt(n) == frame_source = "script" /\ phase = "stream" /\ frame_id = n

\* After the frame at ts=600: STEP_2 COMPLETED with accumulated_ms=300 and
\* completed_ts=600, every other step NOT_STARTED.
ScriptStepsAsExpected(statuses) ==
    /\ statuses[2].state = "COMPLETED"
    /\ statuses[2].accumulated_ms = 6
    /\ statuses[2].completed_ts = 12
    /\ \A s \in Steps \ {2} : statuses[s] = NewStepStatus

\* C16 as stated: under scenario S1 SessionStarted is emitted at ts=200,
\* STEP_2 is COMPLETED with accumulated_ms=300 and completed_ts=600 and
\* every other step NOT_STARTED, and SessionEnded is emitted at ts=1400 with
\* reason=timeout and duration_ms=1200.
C16_ScenarioEndsAt1400 ==
    /\ ScriptAt(3) =>
          gate_call.events = <<SessionEvent("session_started", 1, 4, "", 0)>>
    /\ ScriptAt(6) => ScriptStepsAsExpected(step_statuses)
    /\ ScriptAt(8) =>
          gate_call.events =
              <<SessionEvent("session_ended", 1, 28, "timeout", 24)>>

\* C16, amended: under scenario S1 SessionStarted is emitted at ts=200,
\* STEP_2 is COMPLETED with accumulated_ms=300 and completed_ts=600 and
\* every other step NOT_STARTED, and SessionEnded is emitted at ts=1200, by
\* the first frame without signals when it fails the gate, with
\* reason=timeout and duration_ms=1000 and these step statuses on record;
\* the frame at ts=1400 ends no session.
C16_ScenarioEndsAt1200 ==
    /\ ScriptAt(3) =>
          gate_call.events = <<SessionEvent("session_started", 1, 4, "", 0)>>
    /\ ScriptAt(6) => ScriptStepsAsExpected(step_statuses)
    /\ ScriptAt(7) /\ ~gate_call.gate_ok =>
          /\ gate_call.events =
                <<SessionEvent("session_ended", 1, 24, "timeout", 20)>>
          /\ Len(records) = 1
          /\ ScriptStepsAsExpected(records[1].step_statuses)
    /\ ScriptAt(8) => gate_call.events = <<>>

\* The frame at ts=1200 has failed the gate and ended the session of S1.
C16_Witness ==
    /\ ScriptAt(7)
    /\ ~gate_call.gate_ok
    /\ ~session_active
    /\ Len(records) = 1
    /\ records[1].notes = <<20, "timeout">>

\* C30: when process_frame ends an Active session, the SessionEnded event
\* has reason timeout, the timestamp of the frame and the duration
\* ts - session_start_ts, and the start window is left empty; a session only
\* starts on a window of start_window_frames gate_ok frames, all of them
\* later than the clearing; a gate_ok frame never ends a session.
C30_TimeoutEndsAndClearsWindow ==
    [][gate_call'.op = "process_frame"
       => /\ \A i \in GateEmitted(gate_call', "session_ended") :
                /\ session_active /\ ~session_active'
                /\ gate_call'.events[i].reason = "timeout"
                /\ gate_call'.events[i].timestamp_ms = gate_call'.ts
                /\ gate_call'.events[i].duration_ms
                      = gate_call'.ts - session_start_ts
                /\ gate_call'.events[i].session_id = current_session_id
                /\ start_window' = <<>>
                /\ Len(gate_call'.events) = 1
          /\ GateEmitted(gate_call', "session_started") # {}
                => /\ Len(start_window') = start_window_frames
                   /\ \A k \in 1..Len(start_window') : start_window'[k]
                   /\ ok_run' = start_window_frames
          /\ gate_call'.gate_ok
                => GateEmitted(gate_call', "session_ended") = {}]_vars

\* A session that lasted longer than the timeout is ended by a late failing
\* frame, under a start window of several frames.
C30_Witness ==
    /\ gate_call.op = "process_frame"
    /\ GateEmitted(gate_call, "session_ended") # {}
    /\ gate_call.events[1].reason = "timeout"
    /\ gate_call.events[1].duration_ms > stop_timeout_ms
    /\ start_window_frames >= 2
    /\ start_window = <<>>
    /\ ~session_active
    /\ sessions_started >= 2

\* C21: among the outputs of one call of process_signals, no StepState
\* event comes after the ActiveStep event, and no LED publish of the active
\* step mirror (CURRENT or IDLE) comes before it.
C21_StepStatesThenActiveStep ==
    last_call.op = "process_signals"
    => \A i, j \in 1..Len(emitted) :
          i < j
          => /\ ~(emitted[i].kind = "active_step"
                  /\ emitted[j].kind = "step_state")
             /\ ~(emitted[i].kind = "led_publish"
                  /\ emitted[i].state \in {"CURRENT", "IDLE"}
                  /\ emitted[j].kind = "active_step")

PublishCall(step, state) ==
    InterpreterEvent("led_publish", step, state, 0, "NONE")

\* The calls of led_client.publish that a change of the active step from a
\* to b asks for, given the step states and what the interpreter's LED
\* mirror holds for b.
SyncPublishes(a, b, statuses, mirror) ==
    (IF a # NoStep /\ statuses[a].state # "COMPLETED"
     THEN <<PublishCall(a, "IDLE")>> ELSE <<>>)
    \o (IF b = NoStep THEN <<>>
        ELSE LET desired == IF statuses[b].state = "COMPLETED"
                            THEN "COMPLETED" ELSE "CURRENT"
             IN IF mirror[b] = desired THEN <<>>
                ELSE <<PublishCall(b, desired)>>)

\* After the ActiveStep event of a handler, its calls of publish are those
\* of expected, in that order, and process_signals makes no other call with
\* IDLE or CURRENT; end_session goes on with its IDLE for every step.
ActiveChangePublishes(expected) ==
    /\ Len(emitted') >= 1 + Len(expected)
    /\ emitted'[1].kind = "active_step"
    /\ emitted'[1].step_id = active_step_id'
    /\ SubSeq(emitted', 2, 1 + Len(expected)) = expected
    /\ \A j \in (2 + Len(expected))..Len(emitted') :
          IF last_call'.op = "process_signals"
          THEN ~(emitted'[j].kind = "led_publish"
                 /\ emitted'[j].state \in {"IDLE", "CURRENT"})
          ELSE emitted'[j] = PublishCall(StepOrder[j - 1 - Len(expected)],
                                        "IDLE")

\* C26 as claimed: on a change of the active step from A to B (or to none)
\* within a session, publish is called with IDLE for A unless A is
\* COMPLETED, and then for B with CURRENT, or COMPLETED if B is COMPLETED.
C26_IdleForOldThenNew ==
    [][(last_call'.op \in {"process_signals", "end_session"}
        /\ active_step_id' # active_step_id)
       => ActiveChangePublishes(
              SyncPublishes(active_step_id, active_step_id', step_statuses,
                            [s \in Steps |-> NoLed]))]_vars

\* C26, amended: the same, except that the call for B is left out when the
\* interpreter's LED mirror already holds that state for B.
C26_IdleForOldThenNewUnlessMirrored ==
    [][(last_call'.op \in {"process_signals", "end_session"}
        /\ active_step_id' # active_step_id)
       => ActiveChangePublishes(
              SyncPublishes(active_step_id, active_step_id', step_statuses,
                            led_states))]_vars

\* The active step went from one unfinished step to another: IDLE for the
\* first, then CURRENT for the second.
C26_Witness ==
    /\ last_call.op = "process_signals"
    /\ Len(emitted) >= 3
    /\ emitted[1].kind = "active_step"
    /\ emitted[1].step_id = 3
    /\ emitted[2] = PublishCall(2, "IDLE")
    /\ emitted[3] = PublishCall(3, "CURRENT")
    /\ step_statuses[3].state = "IN_PROGRESS"

\* The positions of the handler's outputs that are equal to e.
EmittedAt(seq, e) == {i \in 1..Len(seq) : seq[i] = e}

\* C27: the call that moves a step to COMPLETED calls publish with
\* COMPLETED for it, after the StepState event and with no later CURRENT or
\* IDLE for it; and while the session goes on, no call of process_signals
\* calls publish with CURRENT or IDLE for a step that is COMPLETED.
C27_CompletedLedNotReverted ==
    [][\A s \in Steps :
         /\ (step_statuses[s].state # "COMPLETED"
             /\ step_statuses'[s].state = "COMPLETED")
            => \E i \in EmittedAt(emitted', PublishCall(s, "COMPLETED")) :
                 /\ \E k \in 1..(i - 1) :
                       /\ emitted'[k].kind = "step_state"
                       /\ emitted'[k].step_id = s
                       /\ emitted'[k].state = "COMPLETED"
                 /\ \A j \in (i + 1)..Len(emitted') :
                       emitted'[j] \notin {PublishCall(s, "CURRENT"),
                                           PublishCall(s, "IDLE")}
         /\ (step_statuses[s].state = "COMPLETED" /\ session_id # 0
             /\ session_id' = session_id)
            => /\ EmittedAt(emitted', PublishCall(s, "CURRENT")) = {}
               /\ EmittedAt(emitted', PublishCall(s, "IDLE")) = {}
               /\ step_statuses'[s].state = "COMPLETED"]_vars

\* A step that was completed on an earlier frame becomes the active step
\* again, and nothing but COMPLETED is published for it.
C27_Witness ==
    /\ last_call.op = "process_signals"
    /\ session_id # 0
    /\ step_statuses[2].state = "COMPLETED"
    /\ step_statuses[2].completed_ts < now
    /\ Len(emitted) >= 2
    /\ emitted[1] = InterpreterEvent("active_step", 2, "", 0, "NONE")
    /\ emitted[2] = PublishCall(3, "IDLE")
    /\ EmittedAt(emitted, PublishCall(2, "CURRENT")) = {}

\* C28: end_session of an open session leaves no active step and no
\* session, calls publish with IDLE for every step in step order as its
\* last outputs, COMPLETED steps included, while the LED session is still
\* open (the lamps are all off unless the transport failed), closes the LED
\* session, and keeps the step statuses and uncertainty events; without a
\* session, process_signals and end_session change nothing and emit
\* nothing.
C28_EndSessionIdlesAndFreezes ==
    [][/\ (last_call'.op = "end_session" /\ session_id # 0)
          => /\ active_step_id' = NoStep
             /\ session_id' = 0
             /\ Len(emitted') >= Len(StepOrder)
             /\ \A i \in 1..Len(StepOrder) :
                   emitted'[Len(emitted') - Len(StepOrder) + i]
                     = PublishCall(StepOrder[i], "IDLE")
             /\ ~cl_disabled' => \A s \in Steps : strip'[s] = "IDLE"
             /\ cl_session_id' = 0
             /\ step_statuses' = step_statuses
             /\ uncertainty_events' = uncertainty_events
       /\ (last_call'.op \in {"ignored", "end_session"} /\ session_id = 0)
          => /\ emitted' = <<>>
             /\ posted' = <<>>
             /\ UNCHANGED <<session_id, step_statuses, active_step_id,
                            uncertainty_events, last_confident_ts,
                            last_published, led_states, cl_session_id,
                            cl_last_states, cl_disabled, strip>>]_vars

\* A session with a COMPLETED step and an active step has been ended over
\* a working transport: every lamp is off and the statuses are kept.
C28_Witness ==
    /\ last_call.op = "end_session"
    /\ session_id = 0
    /\ step_statuses[2].state = "COMPLETED"
    /\ step_statuses[3].state = "IN_PROGRESS"
    /\ emitted = <<InterpreterEvent("active_step", NoStep, "", 0, "NONE"),
                   PublishCall(3, "IDLE"), PublishCall(2, "IDLE"),
                   PublishCall(3, "IDLE")>>
    /\ ~cl_disabled
    /\ \A s \in Steps : strip[s] = "IDLE"

\* A frame arrives after the session was ended and is ignored.
C28_WitnessIgnored ==
    /\ last_call.op = "ignored"
    /\ sessions_started >= 1
    /\ step_statuses[2].state = "COMPLETED"

\* C29: start_session leaves every step NOT_STARTED with accumulated_ms 0,
\* orientation NONE, no completed_ts and uncertainty_count 0, no
\* uncertainty event, no active step, no last confident timestamp, an empty
\* LED mirror and a new LED session of the publisher under the new session
\* id; its outputs are one StepState event NOT_STARTED per step, in step
\* order, and the ActiveStep event of no step.
C29_StartSessionResets ==
    [][last_call'.op = "start_session"
       => /\ session_id' = sessions_started'
          /\ session_id' # session_id
          /\ step_statuses' = [s \in Steps |-> NewStepStatus]
          /\ uncertainty_events' = <<>>
          /\ active_step_id' = NoStep
          /\ last_confident_ts' = [s \in Steps |-> NoTs]
          /\ led_states' = [s \in Steps |-> NoLed]
          /\ cl_session_id' = session_id'
          /\ ~cl_disabled'
          /\ cl_last_states' = [s \in Steps |-> NoLed]
          /\ posted' = <<>>
          /\ emitted' = [i \in 1..(Len(StepOrder) + 1) |->
                           IF i <= Len(StepOrder)
                           THEN InterpreterEvent("step_state", StepOrder[i],
                                                 "NOT_STARTED", 0, "NONE")
                           ELSE InterpreterEvent("active_step", NoStep, "",
                                                 0, "NONE")]]_vars

\* A second session starts after one that completed a step: the lamp of
\* that step is still on (the publisher could not turn it off), the
\* interpreter has nothing left of it.
C29_Witness ==
    /\ last_call.op = "start_session"
    /\ sessions_started = 2
    /\ session_id = 2
    /\ strip[2] = "COMPLETED"
    /\ step_statuses[2] = NewStepStatus
    /\ uncertainty_events = <<>>
    /\ Len(emitted) = Len(StepOrder) + 1

\* C25: a session record that counts signals of a non-model source holds a
\* FallbackEvent, and so does the accumulator of the open session.
C25_FallbackEventRecorded ==
    /\ \A i \in DOMAIN records :
          records[i].heuristic_fallback_count > 0
          => records[i].fallback_events # <<>>
    /\ logger.heuristic_fallback_count > 0 => logger.fallback_events # <<>>

\* C24: every packet DemoApp gives to the session gate, warmup packets
\* included, has a frame_id of at least 0, and neither frame_id nor
\* timestamp_ms is lower than in the packet before.
C24_FrameIdsNonNegativeMonotone ==
    \A i \in DOMAIN fed :
        /\ fed[i].frame_id >= 0
        /\ i > 1 => /\ fed[i - 1].frame_id <= fed[i].frame_id
                    /\ fed[i - 1].timestamp_ms <= fed[i].timestamp_ms

\* What does hold of the packets given to the gate: frame_id and
\* timestamp_ms never decrease, and the packets of the asset, which follow
\* the start_window_frames warmup packets, count their frame_id from 0.
FedMonotoneStreamFromZero ==
    \A i \in DOMAIN fed :
        /\ fed[i].frame_id = i - 1 - start_window_frames
        /\ i > 1 => fed[i - 1].timestamp_ms <= fed[i].timestamp_ms

\* r is 1000 / f rounded to an integer, ties to the even one.
IsRounded(r, f) ==
    LET twice == IF r * f >= 1000 THEN 2 * (r * f - 1000)
                 ELSE 2 * (1000 - r * f)
    IN /\ twice <= f
       /\ twice = f => r % 2 = 0

\* The packets yielded so far are numbered from 0, carry zero motion, have
\* the timestamp frame_id * interval, and carry an annotation exactly when
\* a window holds the timestamp (the first such window of the manifest);
\* no more than total_frames are yielded, and total_frames when the stream
\* is exhausted.
PacketsAsSpecified(interval) ==
    /\ Len(packets) = frame_id
    /\ Len(packets) <= asset.total_frames
    /\ ~ENABLED ReplayStream => Len(packets) = asset.total_frames
    /\ \A i \in DOMAIN packets :
          LET ts == (i - 1) * interval
              holding == {k \in DOMAIN asset.annotations :
                             /\ asset.annotations[k].start_ms <= ts
                             /\ ts < asset.annotations[k].end_ms}
          IN /\ packets[i].frame_id = i - 1
             /\ packets[i].timestamp_ms = ts
             /\ packets[i].mean_velocity = 0
             /\ packets[i].relative_motion = 0
             /\ packets[i].annotation = NoAnnotation <=> holding = {}
             /\ \A k \in holding :
                   (\A j \in holding : k <= j)
                   => packets[i].annotation = asset.annotations[k]

\* C22 as claimed: the packets are as specified with the interval
\* round(1000 / fps).
C22_TimestampsAtRoundedInterval ==
    phase = "replay"
    => \E r \in 0..1000 : IsRounded(r, fps) /\ PacketsAsSpecified(r)

\* C22, amended: the packets are as specified with the interval
\* max(1, round(1000 / fps)).
C22_TimestampsAtClampedInterval ==
    phase = "replay"
    => \E r \in 0..1000 :
          /\ IsRounded(r, fps)
          /\ PacketsAsSpecified(IF r < 1 THEN 1 ELSE r)

\* An asset of 3000 frames per second has been streamed to its end: the
\* last of its three packets is at 2 ms, one packet is annotated and one
\* is not.
C22_Witness ==
    /\ phase = "replay"
    /\ fps = 3000
    /\ Len(packets) = 3
    /\ asset.total_frames = 3
    /\ packets[3].timestamp_ms = 2
    /\ packets[1].annotation = NoAnnotation
    /\ packets[2].annotation # NoAnnotation
    /\ Len(asset.annotations) = 2

\* C23: once deltawash-demo has exited, its status is 2 if the
\* configuration or the manifest was in error (missing file, malformed
\* content, asset not listed), else 3 if the verification was requested
\* and failed, else 0.
C23_ExitCodes ==
    phase \in {"exited", "done"}
    => exit_status =
          IF \/ launch.config # "valid"
             \/ launch.manifest # "valid"
             \/ ~launch.asset_listed
          THEN 2
          ELSE IF launch.verify /\ verify_errors # {} THEN 3 ELSE 0

\* What does hold of the exit status: 2 for a manifest the loader rejects
\* with ManifestError and for an asset that is not listed, 1 for an invalid
\* configuration and for a manifest that fails outside the loader's own
\* checks, 3 and 0 as claimed.
ExitCodesOfTheCode ==
    phase \in {"exited", "done"}
    => exit_status =
          IF launch.config # "valid" THEN 1
          ELSE IF launch.manifest \in {"missing", "rejected"} THEN 2
          ELSE IF launch.manifest # "valid" THEN 1
          ELSE IF ~launch.asset_listed THEN 2
          ELSE IF launch.verify /\ verify_errors # {} THEN 3 ELSE 0

\* A verification that was requested failed.
ExitCodesWitnessVerify ==
    phase = "done" /\ exit_status = 3 /\ Len(asset.annotations) = 1

\* C31: reset() on an Active session emits exactly one SessionEnded with
\* reason reset, stamped with the timestamp of the latest gate_ok frame of
\* the session and with duration_ms = that timestamp - session_start_ts,
\* and leaves the gate Idle with an empty window; on an Idle gate it emits
\* nothing and only empties the window.
C31_ResetEndsAtLastActive ==
    [][gate_call'.op = "reset" =>
         /\ start_window' = <<>>
         /\ ~session_active'
         /\ current_session_id' = 0
         /\ session_start_ts' = NoTs
         /\ last_active_ts' = NoTs
         /\ IF session_active
            THEN /\ last_active_ts = recent_ok_ts
                 /\ gate_call'.events =
                      <<SessionEvent("session_ended", current_session_id,
                                     recent_ok_ts, "reset",
                                     recent_ok_ts - session_start_ts)>>
            ELSE /\ gate_call'.events = <<>>
                 /\ UNCHANGED <<current_session_id, session_start_ts,
                                last_active_ts>>]_vars

\* A session that lasted some time has been ended by reset().
C31_Witness ==
    /\ gate_call.op = "reset"
    /\ Len(gate_call.events) = 1
    /\ gate_call.events[1].reason = "reset"
    /\ gate_call.events[1].duration_ms > 0
    /\ gate_call.events[1].timestamp_ms < now

\* reset() has run on an Idle gate whose window held frames.
C31_WitnessIdle ==
    /\ gate_call.op = "reset"
    /\ gate_call.events = <<>>
    /\ now > 0

\* C32: for every valid configuration, priming leaves the session gate
\* Active with exactly one SessionStarted emitted before the first asset
\* packet is processed, and the session stays Active for the whole replay
\* until the final reset ends it.
C32_PrimingOpensSession ==
    /\ phase = "stream" => /\ session_active
                           /\ sessions_started = 1
                           /\ session_start_ts = 0 - 1
                           /\ session_id = current_session_id
    /\ phase = "done" => /\ ~session_active
                         /\ sessions_started = 1
                         /\ session_id = 0

\* What the code does: the gate opens when min_hands is at most the two
\* hands the warmup and replay packets carry, and stays shut otherwise.
PrimingOpensSessionUpToTwoHands ==
    IF min_hands <= 2 THEN C32_PrimingOpensSession
    ELSE ~session_active /\ sessions_started = 0 /\ session_id = 0

\* C33: for a step that is not COMPLETED a confident signal whose orientation
\* is not NONE sets the step's orientation and any other signal leaves it
\* unchanged, so at any time the orientation of a step is that of the most
\* recent confident signal with a hand orientation that the step received in
\* the session before it completed, and NONE if there was none.
C33_OrientationOfLatestConfident ==
    \A s \in Steps : step_statuses[s].orientation = seen_orientation[s]

\* A step took an orientation from its confident signals and kept it when
\* the signal was lost.
C33_Witness ==
    /\ step_statuses[3].state = "UNCERTAIN"
    /\ step_statuses[3].orientation = "LEFT_OVER_RIGHT"
    /\ step_statuses[3].accumulated_ms > 0
    /\ last_call.op = "process_signals"
    /\ last_call.confident[3] = 0

\* A step completed with a hand orientation.
C33_WitnessCompleted ==
    /\ step_statuses[3].state = "COMPLETED"
    /\ step_statuses[3].orientation = "RIGHT_OVER_LEFT"
    /\ last_call.op = "process_signals"
    /\ last_call.confident[3] > 0

\* The StepState events for a step among the events of the last handler.
StepStateEvents(seq, s) ==
    {i \in DOMAIN seq : seq[i].kind = "step_state" /\ seq[i].step_id = s}

\* C34: while a frame is processed the interpreter emits a StepState event
\* for a step if and only if the step's (state, accumulated_ms, orientation)
\* differs from the values of the last StepState event emitted for it in the
\* session; a frame that changes none of the three emits none for the step.
C34_StepStateIffChanged ==
    [][phase = "stream" /\ frame_id' = frame_id + 1 /\ session_id # 0
       => \A s \in Steps :
            LET status == step_statuses'[s]
                key == <<status.state, status.accumulated_ms,
                         status.orientation>>
                evs == StepStateEvents(emitted', s)
            IN IF key # last_step_event[s]
               THEN /\ Cardinality(evs) = 1
                    /\ \A i \in evs :
                         <<emitted'[i].state, emitted'[i].accumulated_ms,
                           emitted'[i].orientation>> = key
               ELSE evs = {}]_vars

\* A frame advanced STEP_3 and changed nothing of STEP_2, which stays
\* COMPLETED: one event for STEP_3, none for STEP_2.
C34_Witness ==
    /\ phase = "stream"
    /\ frame_id > 1
    /\ session_id # 0
    /\ step_statuses[2].state = "COMPLETED"
    /\ step_statuses[3].state = "IN_PROGRESS"
    /\ step_statuses[3].accumulated_ms > 0
    /\ Cardinality(StepStateEvents(emitted, 3)) = 1
    /\ StepStateEvents(emitted, 2) = {}

\* A frame without signals for a step that was already UNCERTAIN emits
\* nothing.
C34_WitnessSilent ==
    /\ phase = "stream"
    /\ session_id # 0
    /\ step_statuses[3].state = "UNCERTAIN"
    /\ \A s \in Steps : StepStateEvents(emitted, s) = {}


\* ------------------------------------------------------------------- C35
\* What the status reporter shows: its rows and its active-step marker.
ReporterGrid(rp) == <<rp.rows, rp.active_step>>

\* Whether a write shows the grid of the reporter rp.
WriteShows(w, rp) == <<w.rows, w.active_step>> = ReporterGrid(rp)

\* C35: the status reporter never performs two non-forced renders less than
\* refresh_interval apart by its clock; a handle_event call that changes the
\* grid marks it dirty; a handle_event call made with a dirty grid at least
\* refresh_interval after the last render writes the grid once and clears
\* the dirty flag, and so does every forced render (start_session,
\* end_session of an open session, force_render).
C35_ThrottledFlush ==
    [][reporter'.clock = reporter.clock =>
        LET w == reporter'.written
            changed == ReporterGrid(reporter') # ReporterGrid(reporter)
            due == reporter.clock - reporter.last_render >= refresh_interval
            forced == \/ reporter'.call \in {"start_session", "force_render"}
                      \/ /\ reporter'.call = "end_session"
                         /\ reporter.session_id # 0
        IN /\ \A i \in DOMAIN w :
                ~w[i].forced =>
                    /\ \/ reporter.last_unforced = NoTs
                       \/ w[i].at - reporter.last_unforced >= refresh_interval
                    /\ w[i].at - reporter.last_render >= refresh_interval
                    /\ \A j \in DOMAIN w : ~w[j].forced => j = i
           /\ reporter'.call = "handle_event" /\ changed =>
                \/ reporter'.dirty
                \/ w # <<>> /\ WriteShows(w[Len(w)], reporter')
           /\ reporter'.call = "handle_event" /\ (reporter.dirty \/ changed)
                /\ due =>
                /\ Len(w) = 1
                /\ ~w[1].forced
                /\ WriteShows(w[1], reporter')
                /\ ~reporter'.dirty
           /\ reporter'.call = "handle_event" /\ ~due => w = <<>>
           /\ forced =>
                /\ Len(w) = 1
                /\ w[1].forced
                /\ WriteShows(w[1], reporter')
                /\ ~reporter'.dirty]_vars

\* C35 witness: a grid left dirty by a throttled event has been written by
\* the handle_event call that came refresh_interval after the last render.
C35_Witness ==
    /\ reporter.call = "handle_event"
    /\ Len(reporter.written) = 1
    /\ ~reporter.written[1].forced
    /\ reporter.written[1].rows[2].state = "COMPLETED"
    /\ reporter.written[1].active_step = NoStep
    /\ reporter.last_render = refresh_interval + 1
    /\ ~reporter.dirty

\* C35 witness: an event that changed the grid less than refresh_interval
\* after the last render has left it dirty and unwritten.
C35_WitnessThrottled ==
    /\ reporter.call = "handle_event"
    /\ reporter.written = <<>>
    /\ reporter.dirty
    /\ reporter.rows[2].state = "IN_PROGRESS"
    /\ reporter.clock - reporter.last_render = 1

\* C35 witness: a forced render has written a clean grid.
C35_WitnessForced ==
    /\ reporter.call = "force_render"
    /\ Len(reporter.written) = 1
    /\ reporter.written[1].forced
    /\ reporter.clock - reporter.last_unforced = 1


\* ------------------------------------------------------------------- C36
\* C36: over any sequence of process_frame and reset calls the session gate
\* emits STARTED and ENDED events in strict alternation beginning with
\* STARTED, each ENDED carries the session_id of the STARTED before it, and
\* session_active is true exactly between a STARTED and its ENDED.
C36_StartedEndedAlternate ==
    [][LET evs == gate_call'.events
           Before(i) == IF i = 1 THEN gate_call.last_event
                        ELSE [event_type |-> evs[i - 1].event_type,
                              session_id |-> evs[i - 1].session_id]
       IN /\ \A i \in DOMAIN evs :
               /\ evs[i].event_type \in {"session_started", "session_ended"}
               /\ evs[i].event_type = "session_started" =>
                     /\ Before(i).event_type \in {"", "session_ended"}
                     /\ evs[i].session_id # Before(i).session_id
               /\ evs[i].event_type = "session_ended" =>
                     /\ Before(i).event_type = "session_started"
                     /\ evs[i].session_id = Before(i).session_id
          /\ session_active'
                <=> gate_call'.last_event.event_type = "session_started"
          /\ session_active' =>
                current_session_id' = gate_call'.last_event.session_id
          /\ ~session_active' => current_session_id' = 0]_vars

\* C36 witness: the second session has been started after the first was
\* ended by a timeout.
C36_Witness ==
    /\ session_active
    /\ current_session_id = 2
    /\ gate_call.op = "process_frame"
    /\ Len(gate_call.events) = 1
    /\ gate_call.events[1].event_type = "session_started"
    /\ gate_call.events[1].session_id = 2

\* C36 witness: the second session has been ended by reset().
C36_WitnessEnded ==
    /\ ~session_active
    /\ gate_call.op = "reset"
    /\ Len(gate_call.events) = 1
    /\ gate_call.events[1].event_type = "session_ended"
    /\ gate_call.events[1].session_id = 2
    /\ gate_call.last_event.event_type = "session_ended"

\* ------------------------------------------------------------------- C37
\* C37: in the capture and demo pipelines the interpreter is given a
\* frame's signals only if the session is Active after the gate has
\* processed that frame: the frame that opens a session is interpreted
\* within the new session, the frame that times a session out is not
\* interpreted at all, and no frame outside a session changes any
\* StepStatus.
C37_InterpretedOnlyInSession ==
    [][phase = "stream" /\ frame_id' = frame_id + 1 =>
        LET called == last_call'.op = "process_signals"
        IN /\ called => session_active'
           /\ ~session_active /\ session_active' =>
                /\ called
                /\ session_id' = current_session_id'
                /\ session_id' # session_id
                /\ \A s \in Steps :
                      last_call'.confident[s] > 0 =>
                          /\ step_statuses'[s].state # "NOT_STARTED"
                          /\ last_confident_ts'[s] = now'
           /\ session_active /\ ~session_active' =>
                /\ ~called
                /\ session_id' = 0
           /\ ~session_active' => step_statuses' = step_statuses]_vars

\* C37 witness: the frame that opened the second session, at a timestamp
\* above 0, has been interpreted in it and has begun a step.
C37_Witness ==
    /\ phase = "stream"
    /\ gate_call.op = "process_frame"
    /\ Len(gate_call.events) = 1
    /\ gate_call.events[1].event_type = "session_started"
    /\ session_id = 2
    /\ last_call.op = "process_signals"
    /\ \E s \in Steps :
          /\ last_call.confident[s] > 0
          /\ step_statuses[s].state = "IN_PROGRESS"
          /\ last_confident_ts[s] = now

\* C37 witness: the frame that timed the session out was kept from the
\* interpreter, whose statuses show the steps of the session that ended.
C37_WitnessTimeout ==
    /\ phase = "stream"
    /\ gate_call.op = "process_frame"
    /\ Len(gate_call.events) = 1
    /\ gate_call.events[1].reason = "timeout"
    /\ last_call.op = "not_called"
    /\ session_id = 0
    /\ \E s \in Steps : step_statuses[s].state # "NOT_STARTED"


\* ------------------------------------------------------------------- C38
\* C38: after every process_signals call whose signal list holds at most
\* one signal per step, a non-null active_step_id names a step whose state
\* is IN_PROGRESS or COMPLETED, never NOT_STARTED or UNCERTAIN.
C38_ActiveStepHasBegun ==
    (last_call.op = "process_signals" /\ active_step_id # NoStep)
    => step_statuses[active_step_id].state \in {"IN_PROGRESS", "COMPLETED"}

\* C38 witness: a frame has made a step already COMPLETED the active one
\* while the other step is UNCERTAIN.
C38_Witness ==
    /\ last_call.op = "process_signals"
    /\ active_step_id = 3
    /\ last_call.confident[3] > 0
    /\ step_statuses[3].state = "COMPLETED"
    /\ step_statuses[3].completed_ts < now
    /\ step_statuses[2].state = "UNCERTAIN"

\* C38 witness: the active step has just begun.
C38_WitnessInProgress ==
    /\ last_call.op = "process_signals"
    /\ active_step_id = 2
    /\ step_statuses[2].state = "IN_PROGRESS"
    /\ step_statuses[2].accumulated_ms = 0


\* ------------------------------------------------------------------- C39
\* C39: within a session each step's accumulated_ms and uncertainty_count
\* never decrease from one frame to the next, and when signal timestamps
\* are non-decreasing accumulated_ms never exceeds the time elapsed between
\* the step's first confident signal and its latest confident signal in the
\* session.
C39_DwellWithinConfidentSpan ==
    [][(session_id # 0 /\ session_id' = session_id) =>
        \A s \in Steps :
          /\ step_statuses'[s].accumulated_ms >= step_statuses[s].accumulated_ms
          /\ step_statuses'[s].uncertainty_count
                >= step_statuses[s].uncertainty_count
          /\ step_statuses'[s].accumulated_ms
                <= IF confident_span'[s][1] = NoTs THEN 0
                   ELSE confident_span'[s][2] - confident_span'[s][1]]_vars

\* C39 witness: a step has lost the time of a gap: its dwell is below the
\* span of its confident signals, and it has been UNCERTAIN once.
C39_Witness ==
    /\ session_id # 0
    /\ last_call.op = "process_signals"
    /\ last_call.confident[3] > 0
    /\ step_statuses[3].accumulated_ms > 0
    /\ step_statuses[3].uncertainty_count > 0
    /\ confident_span[3][2] = now
    /\ step_statuses[3].accumulated_ms
          < confident_span[3][2] - confident_span[3][1]

\* C39 witness: a step's dwell equals the span of its confident signals.
C39_WitnessTight ==
    /\ session_id # 0
    /\ step_statuses[2].accumulated_ms > 0
    /\ step_statuses[2].accumulated_ms
          = confident_span[2][2] - confident_span[2][1]


\* ------------------------------------------------------------------- C40
\* C40: in the capture and demo pipelines, after each frame of a session has
\* been fully processed, the status reporter's row for every step holds the
\* same state and accumulated_ms as the interpreter's StepStatus for that
\* step, and the reporter's active-step marker names the interpreter's
\* active_step_id.
C40_ReporterMirrorsInterpreter ==
    (has_reporter /\ phase = "stream" /\ session_id # 0) =>
        /\ reporter.session_id = session_id
        /\ \A s \in Steps :
              /\ reporter.rows[s].state = step_statuses[s].state
              /\ reporter.rows[s].accumulated_ms
                    = step_statuses[s].accumulated_ms
        /\ reporter.active_step = active_step_id

\* C40 witness: in a session opened inside the stream one step is COMPLETED
\* and the other, the active one, is IN_PROGRESS with some dwell, and the
\* reporter shows both.
C40_Witness ==
    /\ has_reporter
    /\ phase = "stream"
    /\ session_id # 0
    /\ session_start_ts > 0
    /\ last_call.op = "process_signals"
    /\ \E s, t \in Steps :
          /\ reporter.rows[s].state = "COMPLETED"
          /\ reporter.rows[s].accumulated_ms = duration_ms[s]
          /\ reporter.rows[t].state = "IN_PROGRESS"
          /\ reporter.rows[t].accumulated_ms > 0
          /\ reporter.active_step = t
          /\ active_step_id = t
          /\ step_statuses[t].state = "IN_PROGRESS"

\* C40 witness: a frame without confident signals has left a step UNCERTAIN
\* and no step active, on both sides.
C40_WitnessUncertain ==
    /\ has_reporter
    /\ phase = "stream"
    /\ session_id # 0
    /\ \E s \in Steps :
          /\ reporter.rows[s].state = "UNCERTAIN"
          /\ step_statuses[s].state = "UNCERTAIN"
    /\ reporter.active_step = NoStep
    /\ active_step_id = NoStep

====
